---- MODULE Spec2Model ----
(***************************************************************************)
(* A model of rodusek.dev/pkg/env: decoding environment variables into a   *)
(* struct (Unmarshal, Environment.Unmarshal), the tag resolver (readTag),  *)
(* the value decoder (decodeValue) and the struct walker (decodeStruct).   *)
(*                                                                         *)
(* Go strings are modelled as sequences of one-character strings, so that  *)
(* strings.Split, strings.CutPrefix and the strconv parsers are computed   *)
(* character by character as the library computes them.                    *)
(***************************************************************************)
EXTENDS Integers, Sequences, FiniteSets, TLC

VARIABLES
    pc,        \* "idle" | "walk" | "done": position of the caller, before,
               \* in and after the call of an entry point
    entry,     \* the entry point called: "none" | "Unmarshal" |
               \* "Environment.Unmarshal" | "Value.Unmarshal" | "Value.accessor" |
               \* "Environment.Lookup" | "Environment.Contains"
    out,       \* the `out any` argument: its static shape
    fields,    \* the struct's fields in declaration order (descriptor + slot)
    osenv,     \* the process environment: key -> value, absent keys not in DOMAIN
    e,         \* the Environment map the method is called on (NilMap or a map)
    opts,      \* the caller-supplied ...UnmarshalOption, in order
    i,         \* index of the next field of the walk (1-based)
    lookups,   \* keys handed to the lookup source so far, in call order
    tags,      \* the *tagOptions readTag returned for each field processed so far
    err,       \* the error the call returned (NoErr: nil)
    before,    \* the struct's fields as they were when the call was made
    recv,      \* the receiver v of a method of Value
    acc,       \* the result type of the accessor of Value the caller calls
    invoked,   \* per field visited, the conversions decodeValue invoked, in call order
    script,    \* the calls of Set and Unset on e the caller makes, in order,
               \* before the call of an entry point
    made,      \* how many calls of script have been made
    got        \* what a method of Value left: the type decoded into, and the
               \* value its argument points to or the one it returned; what
               \* Lookup or Contains returned for a key

vars == <<pc, entry, out, fields, osenv, e, opts, i, lookups, tags, err, before,
          recv, acc, invoked, script, made, got>>

----------------------------------------------------------------------------
(* Bounds of the model. *)

\* the largest number of fields of a struct
MaxFields == 2
\* the largest number of caller-supplied options
MaxOpts == 2
\* the largest length of the literal of a `sep=` tag option
MaxSepLen == 2
\* the largest length of a generated field name
MaxNameLen == 3
\* the largest number of calls of Set and Unset before Lookup or Contains
MaxCalls == 3

----------------------------------------------------------------------------
(* Strings. *)

UpperChars == <<"A","B","C","D","E","F","G","H","I","J","K","L","M",
                "N","O","P","Q","R","S","T","U","V","W","X","Y","Z">>
LowerChars == <<"a","b","c","d","e","f","g","h","i","j","k","l","m",
                "n","o","p","q","r","s","t","u","v","w","x","y","z">>

Range(s) == {s[n] : n \in DOMAIN s}

\* unicode.IsUpper, unicode.IsLower, on the characters of the model
IsUpper(c) == c \in Range(UpperChars)
IsLower(c) == c \in Range(LowerChars)

\* strings.ToUpper / the lower(c) helper of strconv, one character
ToUpperChar(c) ==
    IF IsLower(c) THEN UpperChars[CHOOSE n \in 1..26 : LowerChars[n] = c] ELSE c
ToLowerChar(c) ==
    IF IsUpper(c) THEN LowerChars[CHOOSE n \in 1..26 : UpperChars[n] = c] ELSE c

ToUpper(s) == [n \in DOMAIN s |-> ToUpperChar(s[n])]

\* strings.HasPrefix
HasPrefix(s, p) == Len(s) >= Len(p) /\ SubSeq(s, 1, Len(p)) = p

\* a CutPrefix that cuts one character too many
TrimPrefixOneMore(s, p) == SubSeq(s, Len(p) + 2, Len(s))

\* the first return value of strings.CutPrefix when its second is true
TrimPrefix(s, p) == SubSeq(s, Len(p) + 1, Len(s))

\* strings.Index: the least n with sep at s[n..], 0 when there is none
Index(s, sep) ==
    LET hits == {n \in 1..(Len(s) - Len(sep) + 1) :
                    SubSeq(s, n, n + Len(sep) - 1) = sep}
    IN  IF hits = {} THEN 0 ELSE CHOOSE n \in hits : \A m \in hits : n <= m

RECURSIVE SplitNonEmpty(_, _)
SplitNonEmpty(s, sep) ==
    LET n == Index(s, sep)
    IN  IF n = 0 THEN <<s>>
        ELSE <<SubSeq(s, 1, n - 1)>>
                 \o SplitNonEmpty(SubSeq(s, n + Len(sep), Len(s)), sep)

\* strings.Split: a literal split; an empty separator explodes s into its
\* characters (and the empty string into no pieces at all)
Split(s, sep) ==
    IF sep = <<>> THEN [n \in DOMAIN s |-> <<s[n]>>]
    ELSE SplitNonEmpty(s, sep)

RECURSIVE Join(_, _)
Join(parts, sep) ==
    IF parts = <<>> THEN <<>>
    ELSE IF Len(parts) = 1 THEN parts[1]
    ELSE parts[1] \o sep \o Join(Tail(parts), sep)

COMMA == <<",">>
REQUIRED == <<"r","e","q","u","i","r","e","d">>
SEPEQ == <<"s","e","p","=">>

----------------------------------------------------------------------------
(* Errors: a chain of layers, outermost first; errors.Unwrap is Tail. *)

NoErr == <<>>

Layer(kind, key, option, value, type) ==
    [kind |-> kind, Key |-> key, Option |-> option, Value |-> value, Type |-> type]

NoType == <<>>

\* errors made with fmt.Errorf / returned by the standard library
PlainError(msg) == <<Layer(msg, <<>>, <<>>, <<>>, NoType)>>
Panic(msg) == <<Layer("panic", <<>>, <<>>, <<>>, NoType)>>

InvalidTagOptionError(key, option, type) ==
    <<Layer("InvalidTagOptionError", key, option, <<>>, type)>>
\* an InvalidTypeError that does not carry the key
InvalidTypeErrorNoKey(key, type) ==
    <<Layer("InvalidTypeError", <<>>, <<>>, <<>>, type)>>
InvalidTypeError(key, type) ==
    <<Layer("InvalidTypeError", key, <<>>, <<>>, type)>>
RequirementError(key, type) ==
    <<Layer("RequirementError", key, <<>>, <<>>, type)>>
ParseError(key, value, type, cause) ==
    <<Layer("ParseError", key, <<>>, value, type)>> \o cause

Kind(error) == IF error = NoErr THEN "nil" ELSE error[1].kind

----------------------------------------------------------------------------
(* Types and values.                                                       *)
(* A type is the chain of its constructors, outermost first: ***int8 is    *)
(* <<"ptr","ptr","ptr","int8">>, []string is <<"slice","string">>.         *)
(* A value is a record whose field name tells its kind.                    *)

StringType == <<"string">>
Int8Type == <<"int8">>
Uint8Type == <<"uint8">>
BoolType == <<"bool">>
StructType == <<"struct">>
MapType == <<"map">>
\* type Custom int with UnmarshalEnv; type CustomText int with UnmarshalText
CustomType == <<"Custom">>
CustomTextType == <<"CustomText">>
\* time.Duration (an int64) and time.Time (a struct with UnmarshalText)
DurationType == <<"Duration">>
TimeType == <<"Time">>

\* reflect.Type.Kind and reflect.Type.Elem
KindOf(rt) ==
    CASE Head(rt) \in {"Custom", "CustomText"} -> "int"
      [] Head(rt) = "Duration" -> "int64"
      [] Head(rt) = "Time" -> "struct"
      [] OTHER -> Head(rt)
Elem(rt) == Tail(rt)

VStr(s) == [s |-> s]
VInt(n) == [n |-> n]
VBool(b) == [b |-> b]
NilPtr == [nil |-> "ptr"]
Ptr(v) == [ptr |-> v]
NilSlice == [nil |-> "slice"]
Slice(vs) == [list |-> vs]
Opaque(k) == [opaque |-> k]
\* a time.Time: the digits of the literal it was parsed from
VTime(digits) == [t |-> digits]

\* reflect.Zero / the value reflect.New points to
Zero(rt) ==
    CASE Head(rt) = "ptr" -> NilPtr
      [] Head(rt) = "slice" -> NilSlice
      [] Head(rt) = "string" -> VStr(<<>>)
      [] Head(rt) = "bool" -> VBool(FALSE)
      [] Head(rt) \in {"struct", "map"} -> Opaque(Head(rt))
      [] Head(rt) = "Time" -> VTime(<<>>)
      [] OTHER -> VInt(0)

\* the value a field or a variable holds before the call: a default the caller has set
DefaultVal(type) ==
    CASE Head(type) = "ptr" -> NilPtr
      [] Head(type) = "slice" -> Slice(<<Zero(Elem(type))>>)
      [] Head(type) = "string" -> VStr(<<"o">>)
      [] Head(type) = "bool" -> VBool(TRUE)
      [] Head(type) \in {"struct", "map"} -> Opaque(Head(type))
      [] Head(type) = "Time" -> VTime(<<"1">>)
      [] OTHER -> VInt(1)

----------------------------------------------------------------------------
(* The lookup sources. *)

\* an Environment: the nil map, or a map from keys to values
NilMap == [nil |-> "map"]
Map(f) == [map |-> f]

NotFound == [value |-> <<>>, ok |-> FALSE]
Found(v) == [value |-> v, ok |-> TRUE]

\* os.LookupEnv
LookupEnv(env, key) ==
    IF key \in DOMAIN env THEN Found(env[key]) ELSE NotFound

\* the end of Environment.Lookup when the map has no entry, r being what
\* os.LookupEnv returned: `valueStr, ok := os.LookupEnv(key)` declares a
\* second ok inside the if block, so the value found is assigned to the
\* result while the ok returned is still the one of the map access
lookupEnd(r) ==
    IF ~r.ok THEN NotFound ELSE [value |-> r.value, ok |-> FALSE]

\* Environment.Lookup: the map's entry, else the process environment's
Lookup(m, env, key) ==
    IF m # NilMap /\ key \in DOMAIN m.map THEN Found(m.map[key])
    ELSE lookupEnd(LookupEnv(env, key))

\* func (e *Environment) Set(key string, value Value): a nil map is made
\* first
Set(m, key, value) ==
    Map([k \in (IF m = NilMap THEN {} ELSE DOMAIN m.map) \cup {key} |->
            IF k = key THEN value ELSE m.map[k]])

\* func (e Environment) Unset(key string): delete(e, key), which leaves a nil
\* map as it is
Unset(m, key) ==
    IF m = NilMap THEN NilMap
    ELSE Map([k \in DOMAIN m.map \ {key} |-> m.map[k]])

\* func (e Environment) Contains(key string) bool
Contains(m, env, key) ==
    IF m = NilMap THEN FALSE
    ELSE IF key \in DOMAIN m.map THEN TRUE
    ELSE LookupEnv(env, key).ok

\* the `lookup` each entry point hands to decode
lookupOf(ent, m, env, key) ==
    IF ent = "Unmarshal" THEN LookupEnv(env, key) ELSE Lookup(m, env, key)

----------------------------------------------------------------------------
(* The tag resolver. *)

\* Separator(sep): the one UnmarshalOption; its apply sets tag.sep
Separator(sep) == [sep |-> sep]
apply(opt, tag) == [tag EXCEPT !.sep = opt.sep]

RECURSIVE applyAll(_, _)
applyAll(os, tag) ==
    IF os = <<>> THEN tag ELSE applyAll(Tail(os), apply(Head(os), tag))

\* a scan that puts an underscore before every upper-case character but the
\* first
RECURSIVE toScreamingSnakeEveryUpper(_, _, _)
toScreamingSnakeEveryUpper(s, n, prevLower) ==
    IF n > Len(s) THEN <<>>
    ELSE (IF n > 1 /\ IsUpper(s[n]) THEN <<"_">> ELSE <<>>)
             \o <<s[n]>> \o toScreamingSnakeEveryUpper(s, n + 1, IsLower(s[n]))

\* the loop of toScreamingSnake from the n-th character on
RECURSIVE toScreamingSnakeFrom(_, _, _)
toScreamingSnakeFrom(s, n, prevLower) ==
    IF n > Len(s) THEN <<>>
    ELSE (IF prevLower /\ IsUpper(s[n]) THEN <<"_">> ELSE <<>>)
             \o <<s[n]>> \o toScreamingSnakeFrom(s, n + 1, IsLower(s[n]))

toScreamingSnake(s) == ToUpper(toScreamingSnakeFrom(s, 1, FALSE))

\* a loop over parts[1:] that skips what it does not recognise
RECURSIVE readPartsSkipUnknown(_, _, _)
readPartsSkipUnknown(tag, parts, type) ==
    IF parts = <<>> THEN [tag |-> tag, err |-> NoErr]
    ELSE LET part == Head(parts)
             next == IF part = REQUIRED THEN [tag EXCEPT !.required = TRUE]
                     ELSE IF HasPrefix(part, SEPEQ)
                         THEN [tag EXCEPT !.sep = TrimPrefix(part, SEPEQ)]
                     ELSE tag
         IN  readPartsSkipUnknown(next, Tail(parts), type)

\* the loop of readTag over parts[1:]: the first unrecognised part ends it
RECURSIVE readParts(_, _, _)
readParts(tag, parts, type) ==
    IF parts = <<>> THEN [tag |-> tag, err |-> NoErr]
    ELSE LET part == Head(parts)
             next == IF part = REQUIRED THEN [tag EXCEPT !.required = TRUE]
                     ELSE [tag EXCEPT !.sep = TrimPrefix(part, SEPEQ)]
         IN  IF part # REQUIRED /\ ~HasPrefix(part, SEPEQ)
                 THEN [tag |-> tag, err |-> InvalidTagOptionError(tag.key, part, type)]
             ELSE readParts(next, Tail(parts), type)

\* the key readTag looks up: parts[0] of the env tag, or of the field's name
\* in screaming snake case when the field has no env tag
tagString(field) ==
    IF field.hasTag THEN field.Tag ELSE toScreamingSnake(field.Name)
keyOf(field) == Split(tagString(field), COMMA)[1]

\* a readTag that applies the caller's options after the tag's tokens
readTagOptionsLast(found, field, os) ==
    LET parts == Split(tagString(field), COMMA)
        key == parts[1]
        tagOptions == [key |-> key, value |-> found.value, set |-> found.ok,
                       required |-> FALSE, sep |-> COMMA]
        r == readParts(tagOptions, Tail(parts), field.Type)
    IN  [tag |-> applyAll(os, r.tag), err |-> r.err]

readTag(found, field, os) ==
    LET parts == Split(tagString(field), COMMA)
        key == parts[1]
        tagOptions == [key |-> key, value |-> found.value, set |-> found.ok,
                       required |-> FALSE, sep |-> COMMA]
    IN  readParts(applyAll(os, tagOptions), Tail(parts), field.Type)

----------------------------------------------------------------------------
(* strconv: base 0 as decodeValue calls it, base 10 as the hooks of the     *)
(* Custom and CustomText types call it.                                    *)

DigitChars == <<"0","1","2","3","4","5","6","7","8","9">>
IsDigit(c) == c \in Range(DigitChars)

ErrSyntax == PlainError("strconv.ErrSyntax")
ErrRange == PlainError("strconv.ErrRange")

\* the value of a digit character, as in ParseUint's loop
DigitVal(c) ==
    IF IsDigit(c) THEN (CHOOSE n \in 1..10 : DigitChars[n] = c) - 1
    ELSE (CHOOSE n \in 1..26 : LowerChars[n] = ToLowerChar(c)) + 9

RECURSIVE Pow2(_)
Pow2(n) == IF n = 0 THEN 1 ELSE 2 * Pow2(n - 1)

\* a bitness that hands every width to strconv as the platform's
bitnessNative(rt) == 0
\* bitness(rt): the bitSize handed to strconv; 0 is the platform's int
bitness(rt) ==
    CASE Head(rt) \in {"int8", "uint8"} -> 8
      [] Head(rt) \in {"int16", "uint16"} -> 16
      [] Head(rt) \in {"int32", "uint32"} -> 32
      [] Head(rt) \in {"int64", "uint64"} -> 64
      [] OTHER -> 0

\* the literals of the model never reach the limits of a 64-bit integer, so
\* only the narrow widths have a range to exceed
Narrow(bitSize) == bitSize \in {8, 16}

\* underscoreOK(s) of strconv, s without its sign; st is '^', '0', '_' or '!'
RECURSIVE underscoreScan(_, _, _)
underscoreScan(s, st, hex) ==
    IF s = <<>> THEN st # "_"
    ELSE LET c == Head(s)
             digit == IsDigit(c)
                          \/ (hex /\ ToLowerChar(c) \in {"a","b","c","d","e","f"})
             ok == digit \/ (IF c = "_" THEN st = "0" ELSE st # "_")
             next == IF digit THEN "0" ELSE IF c = "_" THEN "_" ELSE "!"
         IN  ok /\ underscoreScan(Tail(s), next, hex)

underscoreOK(s) ==
    IF Len(s) >= 2 /\ s[1] = "0" /\ ToLowerChar(s[2]) \in {"b", "o", "x"}
    THEN underscoreScan(SubSeq(s, 3, Len(s)), "0", ToLowerChar(s[2]) = "x")
    ELSE underscoreScan(s, "^", FALSE)

\* the digit loop of ParseUint: [err, n, underscores]
RECURSIVE uintLoop(_, _, _, _, _, _)
uintLoop(s, base, base0, maxVal, n, underscores) ==
    IF s = <<>> THEN [err |-> NoErr, n |-> n, underscores |-> underscores]
    ELSE LET c == Head(s)
             skip == c = "_" /\ base0
             n1 == IF skip THEN n ELSE n * base + DigitVal(c)
             stop == IF skip THEN NoErr
                     ELSE IF ~(IsDigit(c) \/ IsLower(ToLowerChar(c))) THEN ErrSyntax
                     ELSE IF DigitVal(c) >= base THEN ErrSyntax
                     ELSE IF maxVal >= 0 /\ n1 > maxVal THEN ErrRange
                     ELSE NoErr
         IN  IF stop # NoErr
                 THEN [err |-> stop, n |-> IF stop = ErrRange THEN maxVal ELSE 0,
                       underscores |-> underscores]
             ELSE uintLoop(Tail(s), base, base0, maxVal, n1, underscores \/ skip)

\* the base of a literal and its digits: the base asked for, or the base
\* its prefix tells when base 0 is asked for
prefixed(s) ==
    s[1] = "0" /\ Len(s) >= 3 /\ ToLowerChar(s[2]) \in {"b", "o", "x"}
\* a base 0 that takes a literal without prefix as decimal, leading zero or
\* not
baseOfDecimal(s, b) ==
    IF b # 0 THEN b
    ELSE IF s[1] # "0" \/ ~prefixed(s) THEN 10
    ELSE CASE ToLowerChar(s[2]) = "b" -> 2
           [] ToLowerChar(s[2]) = "o" -> 8
           [] OTHER -> 16
baseOf(s, b) ==
    IF b # 0 THEN b
    ELSE IF s[1] # "0" THEN 10
    ELSE IF ~prefixed(s) THEN 8
    ELSE CASE ToLowerChar(s[2]) = "b" -> 2
           [] ToLowerChar(s[2]) = "o" -> 8
           [] OTHER -> 16
digitsOf(s, b) ==
    IF b # 0 \/ s[1] # "0" THEN s
    ELSE IF prefixed(s) THEN SubSeq(s, 3, Len(s)) ELSE Tail(s)

\* the end of ParseUint, r being what the digit loop returned
uintEnd(s, r) ==
    IF r.err # NoErr THEN [err |-> r.err, n |-> r.n]
    ELSE IF r.underscores /\ ~underscoreOK(s) THEN [err |-> ErrSyntax, n |-> 0]
    ELSE [err |-> NoErr, n |-> r.n]

\* strconv.ParseUint(s, b, bitSize) for b 0 or 10: [err, n]
ParseUint(s, b, bitSize) ==
    IF s = <<>> THEN [err |-> ErrSyntax, n |-> 0]
    ELSE uintEnd(s, uintLoop(digitsOf(s, b), baseOf(s, b), b = 0,
                             IF Narrow(bitSize) THEN Pow2(bitSize) - 1 ELSE -1,
                             0, FALSE))

\* the end of ParseInt, u being what ParseUint returned for the digits
intEnd(neg, cutoff, u) ==
    IF u.err = ErrSyntax THEN [err |-> ErrSyntax, n |-> 0]
    ELSE IF cutoff >= 0 /\ ~neg /\ u.n >= cutoff
        THEN [err |-> ErrRange, n |-> cutoff - 1]
    ELSE IF cutoff >= 0 /\ neg /\ u.n > cutoff
        THEN [err |-> ErrRange, n |-> -cutoff]
    ELSE [err |-> NoErr, n |-> IF neg THEN -u.n ELSE u.n]

\* strconv.ParseInt(s, b, bitSize) for b 0 or 10: [err, n]
ParseInt(s, b, bitSize) ==
    IF s = <<>> THEN [err |-> ErrSyntax, n |-> 0]
    ELSE intEnd(s[1] = "-",
                IF Narrow(bitSize) THEN Pow2(bitSize - 1) ELSE -1,
                ParseUint(IF s[1] \in {"+", "-"} THEN Tail(s) ELSE s, b, bitSize))

\* strconv.ParseBool: [err, b]
ParseBool(s) ==
    IF s \in {<<"1">>, <<"t">>, <<"T">>, <<"T","R","U","E">>,
              <<"t","r","u","e">>, <<"T","r","u","e">>}
        THEN [err |-> NoErr, b |-> TRUE]
    ELSE IF s \in {<<"0">>, <<"f">>, <<"F">>, <<"F","A","L","S","E">>,
                   <<"f","a","l","s","e">>, <<"F","a","l","s","e">>}
        THEN [err |-> NoErr, b |-> FALSE]
    ELSE [err |-> ErrSyntax, b |-> FALSE]

----------------------------------------------------------------------------
(* package time: time.Parse and time.ParseDuration, as far as the shape of *)
(* a literal goes. A layout is written as the shape of the literals it     *)
(* parses, for a one-letter zone "Z" or a numeric one, a six-letter        *)
(* weekday and two-digit days: "9" stands for a digit, "A" for a letter,   *)
(* any other character for itself. The time parsed is the digits of the    *)
(* literal, in order.                                                      *)

\* the error of time.Parse and of time.ParseDuration
ErrTime == PlainError("time.ParseError")
ErrDuration == PlainError("time: invalid duration")

\* var timeLayouts: the names, in the order of the list
timeLayouts ==
    <<"Layout",
      "ANSIC",
      "UnixDate",
      "RubyDate",
      "RFC822",
      "RFC822Z",
      "RFC850",
      "RFC1123",
      "RFC1123Z",
      "RFC3339",
      "RFC3339Nano",
      "Stamp",
      "StampMilli",
      "StampMicro",
      "StampNano",
      "DateTime",
      "DateOnly",
      "TimeOnly",
      "Kitchen">>

\* the shape of the literals of a layout
layoutShape(layout) ==
    CASE layout = "Layout" ->
             <<"9","9","/","9","9"," ","9","9",":","9","9",":","9","9","A","A"," ","'","9","9"," ","-","9","9","9","9">>
      [] layout = "ANSIC" ->
             <<"A","A","A"," ","A","A","A"," ","9","9"," ","9","9",":","9","9",":","9","9"," ","9","9","9","9">>
      [] layout = "UnixDate" ->
             <<"A","A","A"," ","A","A","A"," ","9","9"," ","9","9",":","9","9",":","9","9"," ","A","A","A"," ","9","9","9","9">>
      [] layout = "RubyDate" ->
             <<"A","A","A"," ","A","A","A"," ","9","9"," ","9","9",":","9","9",":","9","9"," ","-","9","9","9","9"," ","9","9","9","9">>
      [] layout = "RFC822" ->
             <<"9","9"," ","A","A","A"," ","9","9"," ","9","9",":","9","9"," ","A","A","A">>
      [] layout = "RFC822Z" ->
             <<"9","9"," ","A","A","A"," ","9","9"," ","9","9",":","9","9"," ","-","9","9","9","9">>
      [] layout = "RFC850" ->
             <<"A","A","A","A","A","A",","," ","9","9","-","A","A","A","-","9","9"," ","9","9",":","9","9",":","9","9"," ","A","A","A">>
      [] layout = "RFC1123" ->
             <<"A","A","A",","," ","9","9"," ","A","A","A"," ","9","9","9","9"," ","9","9",":","9","9",":","9","9"," ","A","A","A">>
      [] layout = "RFC1123Z" ->
             <<"A","A","A",","," ","9","9"," ","A","A","A"," ","9","9","9","9"," ","9","9",":","9","9",":","9","9"," ","-","9","9","9","9">>
      [] layout = "RFC3339" ->
             <<"9","9","9","9","-","9","9","-","9","9","T","9","9",":","9","9",":","9","9","Z">>
      [] layout = "RFC3339Nano" ->
             <<"9","9","9","9","-","9","9","-","9","9","T","9","9",":","9","9",":","9","9","Z">>
      [] layout = "Stamp" ->
             <<"A","A","A"," ","9","9"," ","9","9",":","9","9",":","9","9">>
      [] layout = "StampMilli" ->
             <<"A","A","A"," ","9","9"," ","9","9",":","9","9",":","9","9",".","9","9","9">>
      [] layout = "StampMicro" ->
             <<"A","A","A"," ","9","9"," ","9","9",":","9","9",":","9","9",".","9","9","9","9","9","9">>
      [] layout = "StampNano" ->
             <<"A","A","A"," ","9","9"," ","9","9",":","9","9",":","9","9",".","9","9","9","9","9","9","9","9","9">>
      [] layout = "DateTime" ->
             <<"9","9","9","9","-","9","9","-","9","9"," ","9","9",":","9","9",":","9","9">>
      [] layout = "DateOnly" ->
             <<"9","9","9","9","-","9","9","-","9","9">>
      [] layout = "TimeOnly" ->
             <<"9","9",":","9","9",":","9","9">>
      [] layout = "Kitchen" ->
             <<"9",":","9","9","A","A">>

\* a character of a literal takes the place of a character of a shape
shapeChar(p, c) ==
    CASE p = "9" -> IsDigit(c)
      [] p = "A" -> IsUpper(c) \/ IsLower(c)
      [] OTHER -> c = p

\* the digits of a literal, in order
digitsIn(s) == SelectSeq(s, IsDigit)

\* time.Parse(layout, value): [err, t]
timeParse(layout, value) ==
    IF Len(value) = Len(layoutShape(layout))
       /\ \A n \in DOMAIN value : shapeChar(layoutShape(layout)[n], value[n])
        THEN [err |-> NoErr, t |-> digitsIn(value)]
    ELSE [err |-> ErrTime, t |-> <<>>]

\* the loop over timeLayouts from the n-th layout on: the first layout that
\* parses the value, or the error of the last one
RECURSIVE parseLayouts(_, _)
parseLayouts(n, value) ==
    IF timeParse(timeLayouts[n], value).err = NoErr \/ n = Len(timeLayouts)
        THEN timeParse(timeLayouts[n], value)
    ELSE parseLayouts(n + 1, value)

\* (*time.Time).UnmarshalText: the strict RFC 3339 parser; the receiver is
\* assigned whatever the parser returned
TimeUnmarshalText(value) ==
    [err |-> timeParse("RFC3339", value).err,
     val |-> VTime(timeParse("RFC3339", value).t)]

\* the units of time.ParseDuration the literals of the model use, in
\* milliseconds
unitMs(u) ==
    CASE u = <<"m","s">> -> 1
      [] u = <<"s">> -> 1000
      [] u = <<"m">> -> 60000
      [] u = <<"h">> -> 3600000
      [] OTHER -> -1

\* the leading digits of s, and what follows them
RECURSIVE leadingInt(_, _)
leadingInt(s, n) ==
    IF s = <<>> \/ ~IsDigit(Head(s)) THEN [n |-> n, rest |-> s]
    ELSE leadingInt(Tail(s), n * 10 + DigitVal(Head(s)))

\* the leading unit of s: the characters before the next digit
RECURSIVE leadingUnit(_, _)
leadingUnit(s, u) ==
    IF s = <<>> \/ IsDigit(Head(s)) THEN [u |-> u, rest |-> s]
    ELSE leadingUnit(Tail(s), Append(u, Head(s)))

\* the loop of time.ParseDuration over the groups of digits and unit of a
\* literal without sign or fraction: [err, d]
RECURSIVE durationLoop(_, _)
durationGroup(num, unit, d) ==
    IF num.rest = unit.rest \/ unitMs(unit.u) < 0 THEN [err |-> ErrDuration, d |-> 0]
    ELSE durationLoop(unit.rest, d + num.n * unitMs(unit.u))
durationLoop(s, d) ==
    IF s = <<>> THEN [err |-> NoErr, d |-> d]
    ELSE IF ~IsDigit(Head(s)) THEN [err |-> ErrDuration, d |-> 0]
    ELSE durationGroup(leadingInt(s, 0), leadingUnit(leadingInt(s, 0).rest, <<>>), d)

\* time.ParseDuration(s): [err, d]
ParseDuration(s) ==
    IF s = <<"0">> THEN [err |-> NoErr, d |-> 0]
    ELSE IF s = <<>> THEN [err |-> ErrDuration, d |-> 0]
    ELSE durationLoop(s, 0)

----------------------------------------------------------------------------
(* The value decoder. *)

\* the capability checks of decodeValue: rv.Addr().Interface().(Unmarshaler)
\* and .(encoding.TextUnmarshaler), for the types of the model
IsUnmarshaler(rt) == Head(rt) = "Custom"
IsTextUnmarshaler(rt) == Head(rt) \in {"CustomText", "Time"}

\* (*Custom).UnmarshalEnv and (*CustomText).UnmarshalText: parse in base 10,
\* store the result whether or not it parsed, return the parser's error
UnmarshalEnv(value) == ParseInt(value, 10, 0)
UnmarshalText(value) == ParseInt(value, 10, 0)

\* deref: the number of pointer levels, the leaf type, the leaf's value once
\* every nil level is allocated, and the pointer chain around a leaf value
RECURSIVE derefType(_)
derefType(rt) == IF Head(rt) = "ptr" THEN derefType(Elem(rt)) ELSE rt

RECURSIVE derefValue(_, _)
derefValue(rv, rt) ==
    IF Head(rt) # "ptr" THEN rv
    ELSE derefValue(IF rv = NilPtr THEN Zero(Elem(rt)) ELSE rv.ptr, Elem(rt))

\* a deref that allocates the outermost nil pointer only
rerefOneLevel(leaf, rt) ==
    IF Head(rt) # "ptr" THEN leaf
    ELSE IF Head(Elem(rt)) = "ptr" THEN Ptr(NilPtr)
    ELSE Ptr(leaf)

RECURSIVE reref(_, _)
reref(leaf, rt) == IF Head(rt) = "ptr" THEN Ptr(reref(leaf, Elem(rt))) ELSE leaf

\* a makeParseError that does not keep the error of the conversion
makeParseErrorBare(tag, rt, cause) == ParseError(tag.key, tag.value, rt, NoErr)

\* a ParseError of the field being decoded: makeParseError
makeParseError(tag, rt, cause) == ParseError(tag.key, tag.value, rt, cause)

\* *c = Custom(v) and *c = CustomText(v) of the hooks: [err, val]
stored(r) == [err |-> r.err, val |-> VInt(r.n)]

\* marshaler.UnmarshalText of the leaf type: [err, val]
textHook(rt, value) ==
    IF Head(rt) = "Time" THEN TimeUnmarshalText(value)
    ELSE stored(UnmarshalText(value))

\* a conversion decodeValue invoked, and the raw value it was handed
Call(conv, value) == [conv |-> conv, value |-> value]

\* the result r of a step of decodeValue, after the conversions in done
after(done, r) == [r EXCEPT !.calls = done \o @]

\* what a hook leaves: the value it stored, and its error as a ParseError
hooked(tag, rt, r, conv) ==
    [err |-> IF r.err # NoErr THEN makeParseError(tag, rt, r.err) ELSE NoErr,
     val |-> r.val,
     calls |-> <<Call(conv, tag.value)>>]

\* what a strconv call leaves: the parsed value, or the slot as it was and a
\* ParseError
parsed(tag, rt, rv, error, val, calls) ==
    IF error # NoErr
        THEN [err |-> makeParseError(tag, rt, error), val |-> rv, calls |-> calls]
    ELSE [err |-> NoErr, val |-> val, calls |-> calls]
parsedInt(tag, rt, rv, r) ==
    parsed(tag, rt, rv, r.err, VInt(r.n), <<Call("strconv", tag.value)>>)
parsedBool(tag, rt, rv, r) ==
    parsed(tag, rt, rv, r.err, VBool(r.b), <<Call("strconv", tag.value)>>)
\* a slice case that appends to the elements the slot holds
parsedSliceAppended(tag, rt, rv, r) ==
    parsed(tag, rt, rv, r.err,
           Slice((IF rv = NilSlice THEN <<>> ELSE rv.list) \o r.list), r.calls)
parsedSlice(tag, rt, rv, r) == parsed(tag, rt, rv, r.err, Slice(r.list), r.calls)
parsedDuration(tag, rt, rv, r) ==
    parsed(tag, rt, rv, r.err, VInt(r.d), <<Call("time.ParseDuration", tag.value)>>)
parsedTime(tag, rt, rv, r) ==
    parsed(tag, rt, rv, r.err, VTime(r.t), <<Call("time.Parse", tag.value)>>)

RECURSIVE decodeValue(_, _, _, _)
RECURSIVE decodeEntries(_, _, _, _)

\* one round of the loop of the reflect.Slice case, r being what decodeValue
\* returned for the first entry
\* a round that decodes the entries left after one has failed
decodeEntryGoOn(tag, elemType, entries, slice, r) ==
    IF r.err # NoErr
        THEN [err |-> r.err, list |-> slice,
              calls |-> r.calls
                        \o decodeEntries(tag, elemType, Tail(entries), slice).calls]
    ELSE after(r.calls,
               decodeEntries(tag, elemType, Tail(entries), Append(slice, r.val)))

decodeEntry(tag, elemType, entries, slice, r) ==
    IF r.err # NoErr THEN [err |-> r.err, list |-> slice, calls |-> r.calls]
    ELSE after(r.calls,
               decodeEntries(tag, elemType, Tail(entries), Append(slice, r.val)))

\* the loop of the reflect.Slice case over entries: [err, list, calls]
decodeEntries(tag, elemType, entries, slice) ==
    IF entries = <<>> THEN [err |-> NoErr, list |-> slice, calls |-> <<>>]
    ELSE decodeEntry(tag, elemType, entries, slice,
                     decodeValue([tag EXCEPT !.value = Head(entries)],
                                 elemType, Zero(elemType), TRUE))

\* a switch whose slice case takes an empty value for no entry at all
decodeKindEmptyNoEntry(tag, rt, rv) ==
    CASE KindOf(rt) = "string" ->
             [err |-> NoErr, val |-> VStr(tag.value),
              calls |-> <<Call("SetString", tag.value)>>]
      [] KindOf(rt) \in {"int", "int8", "int16", "int32", "int64"} ->
             parsedInt(tag, rt, rv, ParseInt(tag.value, 0, bitness(rt)))
      [] KindOf(rt) \in {"uint", "uint8", "uint16", "uint32", "uint64"} ->
             parsedInt(tag, rt, rv, ParseUint(tag.value, 0, bitness(rt)))
      [] KindOf(rt) = "bool" ->
             parsedBool(tag, rt, rv, ParseBool(tag.value))
      [] KindOf(rt) = "slice" ->
             parsedSlice(tag, rt, rv,
                         decodeEntries(tag, Elem(rt),
                                       IF tag.value = <<>> THEN <<>>
                                       ELSE Split(tag.value, tag.sep), <<>>))
      [] OTHER ->
             [err |-> InvalidTypeError(tag.key, rt), val |-> rv, calls |-> <<>>]
\* the switch of decodeValue on rt.Kind(): [err, val, calls]
decodeKind(tag, rt, rv) ==
    CASE KindOf(rt) = "string" ->
             [err |-> NoErr, val |-> VStr(tag.value),
              calls |-> <<Call("SetString", tag.value)>>]
      [] KindOf(rt) \in {"int", "int8", "int16", "int32", "int64"} ->
             parsedInt(tag, rt, rv, ParseInt(tag.value, 0, bitness(rt)))
      [] KindOf(rt) \in {"uint", "uint8", "uint16", "uint32", "uint64"} ->
             parsedInt(tag, rt, rv, ParseUint(tag.value, 0, bitness(rt)))
      [] KindOf(rt) = "bool" ->
             parsedBool(tag, rt, rv, ParseBool(tag.value))
      [] KindOf(rt) = "slice" ->
             parsedSlice(tag, rt, rv,
                         decodeEntries(tag, Elem(rt), Split(tag.value, tag.sep), <<>>))
      [] OTHER ->
             [err |-> InvalidTypeError(tag.key, rt), val |-> rv, calls |-> <<>>]

\* the switch of decodeValue on rt, before the one on rt.Kind():
\* [err, val, calls]
decodeType(tag, rt, rv) ==
    CASE rt = DurationType ->
             parsedDuration(tag, rt, rv, ParseDuration(tag.value))
      [] rt = TimeType ->
             parsedTime(tag, rt, rv, parseLayouts(1, tag.value))
      [] OTHER -> decodeKind(tag, rt, rv)

\* the Unmarshaler hook, then the TextUnmarshaler hook, then the switches;
\* h is what the hook before left
afterUnmarshalText(tag, rt, h) ==
    IF h.err # NoErr THEN h ELSE after(h.calls, decodeType(tag, rt, h.val))

\* an Unmarshaler hook whose error does not end decodeValue
afterUnmarshalEnvGoOn(tag, rt, h) ==
    after(h.calls,
          afterUnmarshalText(tag, rt,
              IF IsTextUnmarshaler(rt)
                  THEN hooked(tag, rt, textHook(rt, tag.value), "UnmarshalText")
              ELSE [err |-> NoErr, val |-> h.val, calls |-> <<>>]))

afterUnmarshalEnv(tag, rt, h) ==
    IF h.err # NoErr THEN h
    ELSE after(h.calls,
               afterUnmarshalText(tag, rt,
                   IF IsTextUnmarshaler(rt)
                       THEN hooked(tag, rt, textHook(rt, tag.value), "UnmarshalText")
                   ELSE [err |-> NoErr, val |-> h.val, calls |-> <<>>]))

\* decodeValue after deref, rt and rv being the leaf's: [err, val, calls]
decodeLeaf(tag, rt, rv) ==
    afterUnmarshalEnv(tag, rt,
        IF IsUnmarshaler(rt)
            THEN hooked(tag, rt, stored(UnmarshalEnv(tag.value)), "UnmarshalEnv")
        ELSE [err |-> NoErr, val |-> rv, calls |-> <<>>])

\* the pointers deref allocated, around what the leaf holds
rerefAll(rt, r) == [err |-> r.err, val |-> reref(r.val, rt), calls |-> r.calls]

\* a decodeValue that takes a variable set to the empty string for unset
decodeValueEmptyUnset(tag, rt, rv, canSet) ==
    IF ~canSet
        THEN [err |-> PlainError("cannot set field"), val |-> rv, calls |-> <<>>]
    ELSE IF ~tag.set \/ tag.value = <<>>
        THEN [err |-> IF tag.required THEN RequirementError(tag.key, rt) ELSE NoErr,
              val |-> rv, calls |-> <<>>]
    ELSE rerefAll(rt, decodeLeaf(tag, derefType(rt), derefValue(rv, rt)))

\* decodeValue(lookup, tag, name, rt, rv, field): the error returned and the
\* value the slot rv holds afterwards
decodeValue(tag, rt, rv, canSet) ==
    IF ~canSet
        THEN [err |-> PlainError("cannot set field"), val |-> rv, calls |-> <<>>]
    ELSE IF ~tag.set
        THEN [err |-> IF tag.required THEN RequirementError(tag.key, rt) ELSE NoErr,
              val |-> rv, calls |-> <<>>]
    ELSE rerefAll(rt, decodeLeaf(tag, derefType(rt), derefValue(rv, rt)))

----------------------------------------------------------------------------
(* The struct walker and the entry points. *)

\* a struct field: reflect.StructField (Name, the env tag, Type) and the
\* value rv.Field(i) holds
Field(name, hasTag, tag, type, val) ==
    [Name |-> name, hasTag |-> hasTag, Tag |-> tag, Type |-> type, val |-> val]

\* rv.CanSet() of a field reached through a pointer: the field is exported
CanSet(field) == IsUpper(field.Name[1])

\* the `out any` argument: its dynamic type (<<>> for an untyped nil) and the
\* pointer level that is nil (0 when none is)
Target(type, nilAt) == [type |-> type, nilAt |-> nilAt]
UntypedNil == Target(<<>>, 0)

\* the call of decodeValue in the loop of decodeStruct, tag being the
\* *tagOptions readTag returned: [err, val, tag]
decodeTagged(field, tag, d) ==
    [err |-> d.err, val |-> d.val, tag |-> <<tag>>, calls |-> d.calls]

\* the loop body after readTag, t being what readTag returned
afterReadTag(field, t) ==
    IF t.err # NoErr
        THEN [err |-> t.err, val |-> field.val, tag |-> <<>>, calls |-> <<>>]
    ELSE decodeTagged(field, t.tag,
                      decodeValue(t.tag, field.Type, field.val, CanSet(field)))

\* one iteration of decodeStruct's loop on a field, given what the lookup
\* source answers for its key: [err, val, tag]
decodeField(field, found, os) == afterReadTag(field, readTag(found, field, os))

\* a decode followed by a decodeStruct that does not check the kind
decodeAnyKind(target) ==
    IF target.type = <<>> THEN Panic("reflect: call of reflect.Value.Type on zero Value")
    ELSE IF Head(target.type) # "ptr" THEN PlainError("expected pointer")
    ELSE IF target.nilAt # 0 THEN PlainError("cannot unmarshal into nil pointer")
    ELSE NoErr

\* decode, up to the call of decodeStruct's loop: the error it returns
\* before any field is visited, or "walk"
decode(target) ==
    IF target.type = <<>> THEN Panic("reflect: call of reflect.Value.Type on zero Value")
    ELSE IF Head(target.type) # "ptr" THEN PlainError("expected pointer")
    ELSE IF target.nilAt # 0 THEN PlainError("cannot unmarshal into nil pointer")
    ELSE IF KindOf(derefType(target.type)) # "struct"
        THEN InvalidTypeError(<<>>, derefType(target.type))
    ELSE NoErr

\* the state after decode(target) has run its checks
Enter(ent, error) ==
    /\ entry' = ent
    /\ err' = error
    /\ pc' = IF error = NoErr /\ out # UntypedNil /\ fields # <<>> THEN "walk" ELSE "done"
    /\ UNCHANGED <<out, fields, osenv, e, opts, i, lookups, tags, before, recv, acc, invoked, script, made, got>>

\* func Unmarshal(out any, opts ...UnmarshalOption) error
Unmarshal ==
    /\ pc = "idle" /\ made = Len(script)
    /\ Enter("Unmarshal", IF out = UntypedNil THEN NoErr ELSE decode(out))

\* func (e Environment) Unmarshal(out any, opts ...UnmarshalOption) error
EnvironmentUnmarshal ==
    /\ pc = "idle" /\ made = Len(script)
    /\ Enter("Environment.Unmarshal", decode(out))

\* a slice case that looks the key up again to split it
lookupCallsAgainForSlice(field) ==
    IF Head(field.Type) = "slice" THEN <<keyOf(field), keyOf(field)>>
    ELSE <<keyOf(field)>>

\* the calls of the lookup source one iteration makes: the one of readTag
lookupCalls(field) == <<keyOf(field)>>

\* the state after an iteration that returned r: a loop that goes on after a
\* field has failed and returns the last error
iterateGoOn(r) ==
    /\ lookups' = lookups \o lookupCalls(fields[i])
    /\ tags' = tags \o r.tag
    /\ invoked' = Append(invoked, r.calls)
    /\ fields' = [fields EXCEPT ![i].val = r.val]
    /\ err' = IF r.err # NoErr THEN r.err ELSE err
    /\ i' = i + 1
    /\ pc' = IF i = Len(fields) THEN "done" ELSE "walk"

\* the state after an iteration of decodeStruct's loop that returned r
iterate(r) ==
    /\ lookups' = lookups \o lookupCalls(fields[i])
    /\ tags' = tags \o r.tag
    /\ invoked' = Append(invoked, r.calls)
    /\ fields' = [fields EXCEPT ![i].val = r.val]
    /\ err' = r.err
    /\ i' = IF r.err = NoErr THEN i + 1 ELSE i
    /\ pc' = IF r.err # NoErr \/ i = Len(fields) THEN "done" ELSE "walk"

\* one iteration of the loop of decodeStruct; the last one returns
DecodeStructField ==
    /\ pc = "walk"
    /\ iterate(decodeField(fields[i],
                           lookupOf(entry, e, osenv, keyOf(fields[i])), opts))
    /\ UNCHANGED <<entry, out, osenv, e, opts, before, recv, acc, script, made, got>>

\* const key = "Value" of Value.Unmarshal
VALUE == <<"V","a","l","u","e">>

\* no method of Value has returned
NoResult == [type |-> <<>>, val |-> Opaque("none")]

\* the value the argument of Value.Unmarshal points to when the call is made:
\* a nil pointer at level target.nilAt, or a variable the caller has set
pointee(target) ==
    IF target = UntypedNil THEN Opaque("none")
    ELSE IF target.nilAt > 0 THEN Zero(derefType(target.type))
    ELSE DefaultVal(derefType(target.type))

\* the end of Value.Unmarshal, r being what decodeValue returned for the
\* leaf: the pointers the loop allocated, below the argument, around it
valueEnd(target, r) ==
    [err |-> r.err,
     val |-> IF Head(target.type) = "ptr" THEN reref(r.val, Elem(target.type))
             ELSE r.val]

\* Value.Unmarshal(value, opts...), leaf being the value the chain of
\* pointers ends in: [err, val]
valueUnmarshal(value, target, leaf, os) ==
    IF target = UntypedNil THEN [err |-> NoErr, val |-> leaf]
    ELSE IF target.nilAt = 1
        THEN [err |-> Panic("reflect: reflect.Value.Set using unaddressable value"),
              val |-> leaf]
    ELSE valueEnd(target,
             decodeValue(applyAll(os, [key |-> VALUE, value |-> value, set |-> TRUE,
                                       required |-> FALSE, sep |-> COMMA]),
                         derefType(target.type), leaf, Head(target.type) = "ptr"))

\* the state after a method of Value has returned r for the type rt
returned(ent, rt, r) ==
    /\ entry' = ent
    /\ err' = r.err
    /\ got' = [type |-> rt, val |-> r.val]
    /\ pc' = "done"
    /\ UNCHANGED <<out, fields, osenv, e, opts, i, lookups, tags, before, recv, acc, invoked, script, made>>

\* func (v Value) Unmarshal(value any, opts ...UnmarshalOption) error
ValueUnmarshal ==
    /\ pc = "idle" /\ made = Len(script)
    /\ returned("Value.Unmarshal", out.type,
                valueUnmarshal(recv, out, pointee(out), opts))

\* the types Value has an accessor for, of those the model has: Bool, Int,
\* Int8, Int16, Uint, Uint8, Uint16, Duration, Time
AccessorTypes ==
    {BoolType, <<"int">>, Int8Type, <<"int16">>, <<"uint">>, Uint8Type,
     <<"uint16">>, DurationType, TimeType}

\* func (v Value) Bool() (bool, error) and the accessors after it:
\* var result T; err := v.Unmarshal(&result); return result, err
ValueAccessor ==
    /\ pc = "idle" /\ made = Len(script)
    /\ returned("Value.accessor", acc,
                valueUnmarshal(recv, Target(<<"ptr">> \o acc, 0), Zero(acc), <<>>))

\* the keys of the model
KeyNames == <<<<"A">>, <<"B">>>>
EnvKeys == Range(KeyNames)

\* a call of Set and a call of Unset, as the caller writes them
SetCall(key, value) == [op |-> "Set", key |-> key, value |-> value]
UnsetCall(key) == [op |-> "Unset", key |-> key, value |-> <<>>]

\* the state after the next call of script has changed e to m
edited(m) ==
    /\ e' = m
    /\ made' = made + 1
    /\ UNCHANGED <<pc, entry, out, fields, osenv, opts, i, lookups, tags, err,
                   before, recv, acc, invoked, script, got>>

\* e.Set(key, value), the next call of the caller
EnvironmentSet ==
    /\ pc = "idle" /\ made < Len(script)
    /\ script[made + 1].op = "Set"
    /\ edited(Set(e, script[made + 1].key, script[made + 1].value))

\* e.Unset(key), the next call of the caller
EnvironmentUnset ==
    /\ pc = "idle" /\ made < Len(script)
    /\ script[made + 1].op = "Unset"
    /\ edited(Unset(e, script[made + 1].key))

\* the state after Lookup or Contains has returned val for the key
answered(ent, key, val) ==
    /\ entry' = ent
    /\ got' = [key |-> key, val |-> val]
    /\ pc' = "done"
    /\ UNCHANGED <<out, fields, osenv, e, opts, i, lookups, tags, err, before,
                   recv, acc, invoked, script, made>>

\* value, ok := e.Lookup(key)
EnvironmentLookup ==
    /\ pc = "idle" /\ made = Len(script)
    /\ \E key \in EnvKeys : answered("Environment.Lookup", key, Lookup(e, osenv, key))

\* e.Contains(key)
EnvironmentContains ==
    /\ pc = "idle" /\ made = Len(script)
    /\ \E key \in EnvKeys :
           answered("Environment.Contains", key, Contains(e, osenv, key))

Next ==
    \/ Unmarshal
    \/ EnvironmentUnmarshal
    \/ DecodeStructField
    \/ ValueUnmarshal
    \/ ValueAccessor
    \/ EnvironmentSet
    \/ EnvironmentUnset
    \/ EnvironmentLookup
    \/ EnvironmentContains

----------------------------------------------------------------------------
(* The inputs of the model. *)

BOGUS == <<"b","o","g","u","s">>
SEMI == <<";">>

\* the keys the structs of the model name in their env tags

\* the k-th field of a struct is named by the k-th letter, in upper case when
\* it is exported, and its env tag names the key KeyAt(k): two fields of a
\* struct with more fields than there are keys read the same key
KeyAt(k) == KeyNames[((k - 1) % Len(KeyNames)) + 1]
NameAt(k, exported) == IF exported THEN <<UpperChars[k]>> ELSE <<LowerChars[k]>>

\* `env:"K"` followed by the options, as the author of the struct writes it
TagOf(key, options) == Join(<<key>> \o options, COMMA)

\* every function from a subset of keys to values
Envs(keys, values) == UNION {[ks -> values] : ks \in SUBSET keys}

\* the sequences over S of length at most n
SeqsUpTo(S, n) == UNION {[1..m -> S] : m \in 0..n}

WalkOptionLists == {<<>>, <<REQUIRED>>, <<BOGUS>>}
WalkTypes == {Int8Type, <<"slice", "int8">>}
WalkValues == {<<"7">>, <<"7", ",", "7">>}

WalkFields(k) ==
    {Field(NameAt(k, x), TRUE, TagOf(KeyAt(k), os), t, DefaultVal(t)) :
        x \in BOOLEAN, os \in WalkOptionLists, t \in WalkTypes}

WalkStructs(n) == {fs \in [1..n -> UNION {WalkFields(k) : k \in 1..n}] :
                      \A k \in 1..n : fs[k] \in WalkFields(k)}

\* the arguments handed as `out`: pointers to a struct, and what is not one
StructPtr == Target(<<"ptr", "struct">>, 0)
StructTargets ==
    {StructPtr, Target(<<"ptr", "ptr", "struct">>, 0),
     Target(<<"ptr", "struct">>, 1), Target(<<"ptr", "ptr", "struct">>, 2),
     Target(<<"struct">>, 0)}
OtherTargets ==
    {UntypedNil, Target(<<"int8">>, 0), Target(<<"ptr", "int8">>, 0),
     Target(<<"ptr", "int8">>, 1), Target(<<"ptr", "slice", "string">>, 0),
     Target(<<"ptr", "map">>, 0), Target(<<"ptr", "ptr", "string">>, 0)}

\* the calls that make the Environment of a call: none, which leaves it nil,
\* or those that leave a map holding "7,7" for the first key
Overlays ==
    {<<>>,
     <<SetCall(KeyAt(2), <<"7">>), UnsetCall(KeyAt(2)),
       SetCall(KeyAt(1), <<"7", ",", "7">>)>>}
\* the calls that leave an empty map
Cleared == <<SetCall(KeyAt(1), <<"7">>), UnsetCall(KeyAt(1))>>

Start ==
    /\ pc = "idle"
    /\ entry = "none"
    /\ i = 1
    /\ lookups = <<>>
    /\ tags = <<>>
    /\ err = NoErr
    /\ before = fields
    /\ got = NoResult
    /\ invoked = <<>>
    /\ made = 0

Init ==
    /\ out \in StructTargets \cup OtherTargets
    /\ \E n \in 0..(IF out = StructPtr THEN MaxFields
                    ELSE IF out \in StructTargets THEN 1 ELSE 0) :
           fields \in WalkStructs(n)
    /\ osenv \in Envs(EnvKeys, WalkValues)
    /\ e = NilMap
    /\ opts = <<>>
    /\ recv = <<"7">>
    /\ acc = Int8Type
    /\ script \in Overlays
    /\ Start

Spec == Init /\ [][Next]_vars

\* the inputs of the tag resolver: a struct of one field, with every tag the
\* options of the model make, and the caller's Separator options
SepChars == {",", ";"}
SepLiterals == SeqsUpTo(SepChars, MaxSepLen)
OptionStrings == {REQUIRED, BOGUS} \cup {SEPEQ \o l : l \in SepLiterals}
\* no option, one option, or one of three first options before a second
OptionLists ==
    {<<>>} \cup {<<o>> : o \in OptionStrings}
    \cup {<<o1, o2>> : o1 \in {REQUIRED, BOGUS, SEPEQ \o SEMI}, o2 \in OptionStrings}
FieldTypes == {StringType, Int8Type, <<"slice", "string">>, <<"slice", "int8">>}
FieldValues == {<<>>, <<"7">>, <<"7", ",", "7", ";", "7">>}
CallerOpts == SeqsUpTo({Separator(SEMI), Separator(<<>>)}, MaxOpts)

TagFields ==
    {Field(NameAt(1, x), TRUE, TagOf(KeyAt(1), os), t, DefaultVal(t)) :
        x \in BOOLEAN, os \in OptionLists, t \in FieldTypes}
    \cup {Field(NameAt(1, x), FALSE, <<>>, t, DefaultVal(t)) :
              x \in BOOLEAN, t \in FieldTypes}

InitField ==
    /\ out = StructPtr
    /\ \E f \in TagFields : fields = <<f>>
    /\ osenv \in Envs({KeyAt(1)}, FieldValues)
    /\ e = NilMap
    /\ opts \in CallerOpts
    /\ recv = <<"7">>
    /\ acc = Int8Type
    /\ script = Cleared
    /\ Start

SpecField == InitField /\ [][Next]_vars

\* the inputs of the key-naming rule: a struct of one field without env tag,
\* named by the identifiers of the tests and by every short identifier over
\* a lower-case letter, two upper-case ones, a digit and an underscore
ANONYMOUS_INT == <<"A","N","O","N","Y","M","O","U","S","_","I","N","T">>
NameChars == {"a", "B", "C", "1", "_"}
LongNames ==
    {<<"A","n","o","n","y","m","o","u","s","I","n","t">>,
     <<"P","r","o","j","e","c","t","N","a","m","e">>,
     <<"H","T","T","P","S","e","r","v","e","r">>}
FieldNames == LongNames \cup (SeqsUpTo(NameChars, MaxNameLen) \ {<<>>})

InitName ==
    /\ out = StructPtr
    /\ \E name \in FieldNames :
           fields = <<Field(name, FALSE, <<>>, Int8Type, DefaultVal(Int8Type))>>
    /\ osenv \in Envs({ANONYMOUS_INT}, {<<"7">>})
    /\ e = NilMap
    /\ opts = <<>>
    /\ recv = <<"7">>
    /\ acc = Int8Type
    /\ script = Cleared
    /\ Start

SpecName == InitName /\ [][Next]_vars

\* the inputs of the value decoder: the raw values and the types of the
\* tests, and what the tests leave out
RawValues ==
    {<<"4","2">>,
     <<"0","x","2","A">>,
     <<"0","o","5","2">>,
     <<"0","b","1","0","1","0","1","0">>,
     <<"0","1","0">>,
     <<"0","8">>,
     <<"-","1">>,
     <<"3","0","0">>,
     <<"1","_","0">>,
     <<"t","r","u","e">>,
     <<"x">>,
     <<>>,
     <<"1",",","2">>,
     <<"a",";","b",";","c">>,
     <<"1",";","x">>,
     <<"1","h","5","m">>,
     <<"5","s">>,
     <<"2","0","2","1","-","0","1","-","0","1","T","0","0",":","0","0",":","0","0","Z">>,
     <<"2","0","2","1","-","0","1","-","0","1">>,
     <<"3",":","0","4","P","M">>}
LeafTypes ==
    {StringType, BoolType, <<"int">>, Int8Type, Uint8Type, DurationType, TimeType,
     CustomType, CustomTextType, StructType, MapType}
DecodeTypes ==
    LeafTypes
    \cup {<<"ptr">> \o t : t \in {Int8Type, CustomType, StructType}}
    \cup {<<"ptr", "ptr", "ptr", "int">>}
    \cup {<<"slice">> \o t : t \in {StringType, Int8Type, DurationType, StructType,
                                    <<"ptr", "int8">>}}

\* a field of a pointer type holds nil, or points to a pointer that is nil,
\* or to a value, when the call is made
RECURSIVE HeldBy(_)
HeldBy(type) ==
    IF Head(type) = "ptr"
        THEN {NilPtr} \cup {Ptr(p) : p \in HeldBy(Elem(type))}
    ELSE {DefaultVal(type)}

\* a struct of one exported field with an env tag of key A, with or without
\* a `sep=;` option
InitDecode ==
    /\ out = StructPtr
    /\ \E t \in DecodeTypes, os \in {<<>>, <<SEPEQ \o SEMI>>} :
         \E held \in HeldBy(t) :
           fields = <<Field(NameAt(1, TRUE), TRUE, TagOf(KeyAt(1), os), t, held)>>
    /\ osenv \in Envs({KeyAt(1)}, RawValues)
    /\ e = NilMap
    /\ opts = <<>>
    /\ recv = <<"7">>
    /\ acc = Int8Type
    /\ script = Cleared
    /\ Start

SpecDecode == InitDecode /\ [][Next]_vars

\* the inputs of the methods of Value: what Unmarshal is handed, the
\* receiver, and the accessor called
ValueTargets ==
    {UntypedNil, StructPtr}
    \cup {Target(t, 0) : t \in {Int8Type, StringType}}
    \cup {Target(<<"ptr">> \o t, n) : t \in LeafTypes, n \in 0..1}
    \cup {Target(<<"ptr", "ptr">> \o t, n) : t \in {StringType, Int8Type}, n \in 0..2}
    \cup {Target(<<"ptr", "slice", "int8">>, 0)}

InitValue ==
    /\ out \in ValueTargets
    /\ fields = IF out = StructPtr
                THEN <<Field(NameAt(1, TRUE), TRUE, KeyAt(1),
                             <<"ptr", "ptr", "ptr", "int">>, NilPtr)>>
                ELSE <<>>
    /\ osenv = [k \in {KeyAt(1)} |-> <<"4", "2">>]
    /\ e = NilMap
    /\ opts \in {<<>>, <<Separator(SEMI)>>}
    /\ recv \in RawValues
    /\ acc \in AccessorTypes
    /\ script = Cleared
    /\ Start

SpecValue == InitValue /\ [][Next]_vars

----------------------------------------------------------------------------
(* Vocabulary of the properties. *)

\* the call has returned
Done == pc = "done"

\* a call of Unmarshal or of Environment.Unmarshal has returned
Unmarshalled == Done /\ entry \in {"Unmarshal", "Environment.Unmarshal"}

\* the call reached the loop of decodeStruct and has returned
Walked ==
    /\ Unmarshalled
    /\ out.type # <<>> /\ Head(out.type) = "ptr" /\ out.nilAt = 0
    /\ derefType(out.type) = StructType

\* the option tokens of a field's tag, as written between the commas
OptionsOf(field) == IF field.hasTag THEN Tail(Split(field.Tag, COMMA)) ELSE <<>>

Recognised(part) == part = REQUIRED \/ HasPrefix(part, SEPEQ)
HasRequired(field) == REQUIRED \in Range(OptionsOf(field))
HasUnrecognised(field) == \E p \in Range(OptionsOf(field)) : ~Recognised(p)
FirstUnrecognised(field) ==
    LET os == OptionsOf(field)
        n == CHOOSE n \in DOMAIN os :
                 ~Recognised(os[n]) /\ \A m \in 1..(n - 1) : Recognised(os[m])
    IN  os[n]

\* what the lookup source of the call answers for the key of field k
Answer(k) == lookupOf(entry, e, osenv, keyOf(before[k]))

\* what decoding field k alone yields, from the struct as it was
Alone(k) == decodeField(before[k], Answer(k), opts)

\* the walk visited field k; the error the walk returned is field k's
Visited(k) == k \in DOMAIN before /\ k <= i
FailedAt(k) == err # NoErr /\ i = k

\* the same field with `required` struck from its tag
WithoutRequired(field) ==
    [field EXCEPT !.Tag = Join(SelectSeq(Split(field.Tag, COMMA),
                                         LAMBDA p : p # REQUIRED), COMMA)]

----------------------------------------------------------------------------
(* Properties. *)

\* C1 as stated, for the exported fields: a field tagged `required` fails
\* with a RequirementError exactly when its key is absent, the error's Key
\* being the tag's key, and with the key present it is decoded as the same
\* field without `required`.
C1_RequiredAsStated ==
    Walked =>
        \A k \in DOMAIN before :
            (Visited(k) /\ HasRequired(before[k]) /\ CanSet(before[k])) =>
                LET plain == decodeField(WithoutRequired(before[k]), Answer(k), opts)
                    requirement == FailedAt(k) /\ Kind(err) = "RequirementError"
                IN  /\ requirement <=> ~Answer(k).ok
                    /\ requirement => err[1].Key = keyOf(before[k])
                    /\ Answer(k).ok =>
                           /\ fields[k].val = plain.val
                           /\ (IF FailedAt(k) THEN err ELSE NoErr) = plain.err

\* C1 amended: the same, for an exported field whose tag holds no
\* unrecognised option.
C1_Required ==
    Walked =>
        \A k \in DOMAIN before :
            (/\ Visited(k) /\ HasRequired(before[k])
             /\ CanSet(before[k]) /\ ~HasUnrecognised(before[k])) =>
                LET plain == decodeField(WithoutRequired(before[k]), Answer(k), opts)
                    requirement == FailedAt(k) /\ Kind(err) = "RequirementError"
                IN  /\ requirement <=> ~Answer(k).ok
                    /\ requirement => err[1].Key = keyOf(before[k])
                    /\ Answer(k).ok =>
                           /\ fields[k].val = plain.val
                           /\ (IF FailedAt(k) THEN err ELSE NoErr) = plain.err

\* C1 witness: an exported required field with a well-formed tag and an
\* absent key has failed with a RequirementError.
C1_Witness ==
    /\ Walked /\ Len(before) = 1
    /\ HasRequired(before[1]) /\ CanSet(before[1]) /\ ~HasUnrecognised(before[1])
    /\ ~Answer(1).ok
    /\ Kind(err) = "RequirementError"

\* C2 as stated, for the fields whose tag holds no unrecognised option: a
\* field that is not `required` and whose key is absent keeps the value it
\* had, and the walk returns no error for it.
C2_AbsentKeepsValue ==
    Walked =>
        \A k \in DOMAIN before :
            (/\ Visited(k) /\ ~HasRequired(before[k]) /\ ~HasUnrecognised(before[k])
             /\ ~Answer(k).ok) =>
                /\ fields[k].val = before[k].val
                /\ ~FailedAt(k)

\* C3: when the walk fails at field i, the error is that field's, it is the
\* first field that fails, every field before it holds its decoded value,
\* every field after it is unchanged and no key after it was looked up.
C3_FirstErrorAborts ==
    (Walked /\ err # NoErr) =>
        /\ i \in DOMAIN before
        /\ err = Alone(i).err
        /\ \A k \in 1..(i - 1) :
               Alone(k).err = NoErr /\ fields[k].val = Alone(k).val
        /\ \A k \in (i + 1)..Len(before) : fields[k] = before[k]
        /\ lookups = [k \in 1..i |-> keyOf(before[k])]

\* C3 witness: the walk failed at the first of two fields, and the second
\* field's key is set to a value that would have changed it.
C3_Witness ==
    /\ Walked /\ err # NoErr /\ i = 1 /\ Len(before) = 2
    /\ Answer(2).ok /\ Alone(2).err = NoErr /\ Alone(2).val # before[2].val

\* C4: a successful walk has called the lookup source once per field, in
\* declaration order, with the field's key - for slice fields too.
C4_OneLookupPerField ==
    (Walked /\ err = NoErr) =>
        /\ lookups = [k \in DOMAIN before |-> keyOf(before[k])]
        /\ i = Len(before) + 1

\* C4 witness: a successful walk of two fields, one a slice decoded from a
\* value of two pieces.
C4_Witness ==
    /\ Walked /\ err = NoErr /\ Len(before) = 2
    /\ \E k \in DOMAIN fields :
           /\ Head(fields[k].Type) = "slice"
           /\ Answer(k).ok
           /\ Len(fields[k].val.list) = 2

\* C5 as stated: an unexported field is skipped - it is left unchanged and
\* the walk returns no error on its account.
C5_UnexportedSkipped ==
    Walked =>
        \A k \in DOMAIN before :
            ~CanSet(before[k]) =>
                /\ fields[k].val = before[k].val
                /\ ~FailedAt(k)

\* C6 as stated: a nil target - an untyped nil or a nil pointer to a struct -
\* makes either entry point return nil, with no lookup and no write.
C6_NilTargetNoOp ==
    (Unmarshalled /\ out \in {UntypedNil, Target(<<"ptr", "struct">>, 1)}) =>
        /\ err = NoErr
        /\ lookups = <<>>
        /\ fields = before

\* the target is typed and does not lead to a struct
NotAStruct(target) ==
    target.type # <<>> /\ KindOf(derefType(target.type)) # "struct"

C8_UnknownOptionFails ==
    Walked =>
        \A k \in DOMAIN before :
            (Visited(k) /\ HasUnrecognised(before[k])) =>
                /\ FailedAt(k)
                /\ Kind(err) = "InvalidTagOptionError"
                /\ err[1].Option = FirstUnrecognised(before[k])
                /\ err[1].Key = keyOf(before[k])
                /\ fields[k].val = before[k].val

\* C8 witness: a field tagged `required` and with an unrecognised option,
\* its key set, has failed with an InvalidTagOptionError.
C8_Witness ==
    /\ Walked /\ Len(before) = 1
    /\ HasUnrecognised(before[1]) /\ HasRequired(before[1]) /\ Answer(1).ok
    /\ Kind(err) = "InvalidTagOptionError"

\* the literal of the last `sep=` token of a field's tag
SepTokens(field) == SelectSeq(OptionsOf(field), LAMBDA p : HasPrefix(p, SEPEQ))
LastSep(field) ==
    TrimPrefix(SepTokens(field)[Len(SepTokens(field))], SEPEQ)

\* C9: the separator readTag resolves is the tag's `sep=` literal when the
\* tag has one, otherwise the last Separator option of the caller, otherwise
\* ",".
C9_EffectiveSeparator ==
    \A k \in DOMAIN tags :
        tags[k].sep =
            IF SepTokens(before[k]) # <<>> THEN LastSep(before[k])
            ELSE IF opts # <<>> THEN opts[Len(opts)].sep
            ELSE COMMA

\* C9 witness: a tag's `sep=` has won over a different Separator option of
\* the caller.
C9_Witness ==
    /\ Walked /\ Len(tags) = 1
    /\ SepTokens(before[1]) # <<>>
    /\ opts # <<>> /\ opts[Len(opts)].sep # LastSep(before[1])
    /\ tags[1].sep = LastSep(before[1])

\* the field's tag was written as the key followed by the option `sep=l`
WrittenWithSep(field, l) ==
    field.hasTag /\ field.Tag = TagOf(keyOf(field), <<SEPEQ \o l>>)

\* C10 as stated: for every literal l, a comma in it or not, the option
\* `sep=l` is accepted and the separator is l.
C10_SepLiteralAsStated ==
    (Walked /\ before # <<>>) =>
        \A l \in SepLiterals :
            WrittenWithSep(before[1], l) =>
                /\ Kind(err) # "InvalidTagOptionError"
                /\ Len(tags) = 1 /\ tags[1].sep = l

\* C10 amended: for every literal l without a comma - empty, of one
\* character or of several - the option `sep=l` is accepted and the
\* separator is l.
C10_SepLiteral ==
    (Walked /\ before # <<>>) =>
        \A l \in SepLiterals :
            (WrittenWithSep(before[1], l) /\ "," \notin Range(l)) =>
                /\ Kind(err) # "InvalidTagOptionError"
                /\ Len(tags) = 1 /\ tags[1].sep = l

\* C10 witness: a tag with `sep=;;` was resolved to the separator ";;".
C10_Witness ==
    /\ Walked /\ before # <<>> /\ WrittenWithSep(before[1], <<";", ";">>)
    /\ Len(tags) = 1 /\ tags[1].sep = <<";", ";">>

\* the positions of a name where an upper-case character directly follows a
\* lower-case one, and how many of them lie at or before position k
Breaks(name) == {k \in 2..Len(name) : IsUpper(name[k]) /\ IsLower(name[k - 1])}
BreaksUpTo(name, k) == Cardinality({j \in Breaks(name) : j <= k})

\* key is name in upper case with one underscore before each break and none
\* elsewhere
IsSnakeOf(key, name) ==
    /\ Len(key) = Len(name) + Cardinality(Breaks(name))
    /\ \A k \in DOMAIN name :
           /\ key[k + BreaksUpTo(name, k)] = ToUpperChar(name[k])
           /\ k \in Breaks(name) => key[k + BreaksUpTo(name, k) - 1] = "_"

\* C11: the key looked up for a field without env tag is the field's name
\* with an underscore before every upper-case character that directly
\* follows a lower-case one and nowhere else, in upper case.
C11_ScreamingSnakeKey ==
    Walked =>
        \A k \in DOMAIN before :
            (Visited(k) /\ ~before[k].hasTag) => IsSnakeOf(lookups[k], before[k].Name)

\* C11 witness: the untagged field AnonymousInt was decoded from the
\* variable ANONYMOUS_INT.
C11_Witness ==
    /\ Walked /\ before # <<>> /\ ~before[1].hasTag
    /\ before[1].Name = <<"A","n","o","n","y","m","o","u","s","I","n","t">>
    /\ lookups = <<ANONYMOUS_INT>>
    /\ err = NoErr /\ fields[1].val = VInt(7)

\* field k was visited, can be set, its tag is well formed and its key was
\* found: decodeValue converted the raw value
Converted(k) ==
    /\ Visited(k) /\ CanSet(before[k])
    /\ ~HasUnrecognised(before[k])
    /\ Answer(k).ok

\* the leaf type of field k, the raw value found for it, and the value the
\* leaf holds after the call
LeafType(k) == derefType(before[k].Type)
Raw(k) == Answer(k).value
LeafNow(k) == derefValue(fields[k].val, before[k].Type)

\* what the hook of a leaf type returns for a raw value, and what it writes
HookResult(rt, value) ==
    IF IsUnmarshaler(rt) THEN stored(UnmarshalEnv(value)) ELSE textHook(rt, value)

\* C12 as stated: when the hook of a field's leaf type returns nil for the
\* value found, the field decode succeeds and the field holds what the hook
\* wrote; no built-in conversion overwrites it or fails afterwards.
C12_HookOwnsConversion ==
    Walked =>
        \A k \in DOMAIN before :
            (/\ Converted(k)
             /\ IsUnmarshaler(LeafType(k)) \/ IsTextUnmarshaler(LeafType(k))
             /\ HookResult(LeafType(k), Raw(k)).err = NoErr) =>
                /\ ~FailedAt(k)
                /\ LeafNow(k) = HookResult(LeafType(k), Raw(k)).val

\* a layout of timeLayouts parses the value; the first that does
Parses(n, value) == timeParse(timeLayouts[n], value).err = NoErr
FirstLayout(value) ==
    CHOOSE n \in DOMAIN timeLayouts :
        Parses(n, value) /\ \A m \in 1..(n - 1) : ~Parses(m, value)

\* C13 as stated: a value found for a time.Time field that one of the
\* layouts parses decodes without error into what the first such layout
\* yields.
C13_FirstLayoutWins ==
    Walked =>
        \A k \in DOMAIN before :
            (/\ Converted(k)
             /\ LeafType(k) = TimeType
             /\ \E n \in DOMAIN timeLayouts : Parses(n, Raw(k))) =>
                /\ ~FailedAt(k)
                /\ LeafNow(k) = VTime(timeParse(timeLayouts[FirstLayout(Raw(k))], Raw(k)).t)

\* every pointer level of a value of the given type is allocated
RECURSIVE AllocatedTo(_, _)
AllocatedTo(val, type) ==
    Head(type) = "ptr" =>
        /\ "ptr" \in DOMAIN val
        /\ AllocatedTo(val.ptr, Elem(type))

\* what decoding the same raw value into a field of the leaf type yields,
\* the field holding what the leaf held
AsLeaf(k) ==
    decodeField([before[k] EXCEPT !.Type = LeafType(k),
                                  !.val = derefValue(before[k].val, before[k].Type)],
                Answer(k), opts)

\* Value.Unmarshal was handed a non-nil pointer and has returned
ValueDecoded ==
    /\ Done /\ entry = "Value.Unmarshal"
    /\ out.type # <<>> /\ Head(out.type) = "ptr" /\ out.nilAt # 1

\* what decoding the receiver into a variable of the leaf type yields
ValueAsLeaf ==
    valueUnmarshal(recv, Target(<<"ptr">> \o derefType(out.type), 0), pointee(out), opts)

\* C14: after a found value is decoded into a field of a pointer type, every
\* pointer level is allocated and the leaf holds what decoding the value
\* into the leaf type yields, with the same error; so it is for
\* Value.Unmarshal handed a pointer to pointers, nil or not.
C14_PointersAllocated ==
    /\ Walked =>
           \A k \in DOMAIN before :
               (Converted(k) /\ Head(before[k].Type) = "ptr") =>
                   /\ AllocatedTo(fields[k].val, before[k].Type)
                   /\ LeafNow(k) = AsLeaf(k).val
                   /\ IF FailedAt(k) THEN err = AsLeaf(k).err ELSE AsLeaf(k).err = NoErr
    /\ ValueDecoded =>
           /\ AllocatedTo(got.val, Elem(out.type))
           /\ derefValue(got.val, Elem(out.type)) = ValueAsLeaf.val
           /\ err = ValueAsLeaf.err

\* C14 witness: a nil ***int field decoded "42": three levels are allocated
\* and the leaf is 42.
C14_Witness ==
    /\ Walked /\ before # <<>>
    /\ before[1].Type = <<"ptr", "ptr", "ptr", "int">> /\ before[1].val = NilPtr
    /\ err = NoErr /\ fields[1].val = Ptr(Ptr(Ptr(VInt(42))))

\* Value.Unmarshal handed a pointer to a nil *string has allocated the
\* string and stored the receiver in it
C14_ValueWitness ==
    /\ ValueDecoded /\ out = Target(<<"ptr", "ptr", "string">>, 2)
    /\ err = NoErr /\ got.val = Ptr(VStr(recv))

\* s occurs in value at position p
OccursAt(value, s, p) ==
    p + Len(s) - 1 <= Len(value) /\ SubSeq(value, p, p + Len(s) - 1) = s

\* the positions of the occurrences of a non-empty s in value, counted from
\* the left without overlap
Cuts(value, s) ==
    CHOOSE C \in SUBSET (1..Len(value)) :
        \A p \in 1..Len(value) :
            p \in C <=> /\ OccursAt(value, s, p)
                        /\ \A q \in C : ~(q < p /\ p < q + Len(s))

\* the j-th occurrence, and the j-th piece of the literal split of value on s
CutAt(value, s, j) ==
    CHOOSE p \in Cuts(value, s) : Cardinality({q \in Cuts(value, s) : q < p}) = j - 1
Piece(value, s, j) ==
    SubSeq(value,
           IF j = 1 THEN 1 ELSE CutAt(value, s, j - 1) + Len(s),
           IF j = Cardinality(Cuts(value, s)) + 1 THEN Len(value)
           ELSE CutAt(value, s, j) - 1)

\* what decoding a piece into a fresh element of the slice of field k yields
ElementOf(k, piece) ==
    decodeValue([tags[k] EXCEPT !.value = piece], Elem(LeafType(k)),
                Zero(Elem(LeafType(k))), TRUE)

\* field k is a slice that was decoded without error with a non-empty
\* separator
SliceDecoded(k) ==
    /\ Converted(k) /\ ~FailedAt(k)
    /\ Head(LeafType(k)) = "slice"
    /\ tags[k].sep # <<>>

\* C15: a slice field decoded without error with a non-empty separator s
\* holds the decoded pieces of the literal split of the raw value on s, in
\* order, one more than s occurs, and none of the elements it held before.
C15_SliceIsSplit ==
    Walked =>
        \A k \in DOMAIN before :
            SliceDecoded(k) =>
                /\ "list" \in DOMAIN LeafNow(k)
                /\ Len(LeafNow(k).list) = Cardinality(Cuts(Raw(k), tags[k].sep)) + 1
                /\ \A j \in DOMAIN LeafNow(k).list :
                       LeafNow(k).list[j]
                           = ElementOf(k, Piece(Raw(k), tags[k].sep, j)).val

\* C15 witness: a []string field that held one element, with separator ";",
\* decoded "7,7;7" into the two pieces "7,7" and "7".
C15_Witness ==
    /\ Walked /\ before # <<>> /\ SliceDecoded(1)
    /\ before[1].Type = <<"slice", "string">>
    /\ before[1].val = Slice(<<VStr(<<>>)>>)
    /\ tags[1].sep = SEMI
    /\ fields[1].val = Slice(<<VStr(<<"7", ",", "7">>), VStr(<<"7">>)>>)

\* the integer field types of the model, and the values each holds
IntegerTypes == {<<"int">>, Int8Type, Uint8Type}
Signed(rt) == Head(rt) \notin {"uint", "uint8", "uint16", "uint32", "uint64"}
InRange(rt, n) ==
    CASE rt = Int8Type -> n \in -128..127
      [] rt = <<"int16">> -> n \in -32768..32767
      [] rt = Uint8Type -> n \in 0..255
      [] rt = <<"uint16">> -> n \in 0..65535
      [] rt = <<"uint">> -> n >= 0
      [] OTHER -> TRUE

\* an integer literal taken apart: its sign, its prefix, and what follows
HasSign(s) == s # <<>> /\ s[1] \in {"+", "-"}
Unsigned(s) == IF HasSign(s) THEN Tail(s) ELSE s
HasBasePrefix(body) ==
    Len(body) >= 2 /\ body[1] = "0" /\ ToLowerChar(body[2]) \in {"b", "o", "x"}
PrefixBase(body) ==
    IF ~HasBasePrefix(body) THEN 10
    ELSE CASE ToLowerChar(body[2]) = "b" -> 2
           [] ToLowerChar(body[2]) = "o" -> 8
           [] OTHER -> 16
AfterPrefix(body) == IF HasBasePrefix(body) THEN SubSeq(body, 3, Len(body)) ELSE body

\* c is a digit of the base
IsDigitOf(c, base) ==
    (IsDigit(c) \/ IsLower(ToLowerChar(c))) /\ DigitVal(c) < base

\* ds is digits of the base, with single underscores between digits only
DigitsOf(ds, base) ==
    /\ ds # <<>> /\ ds[1] # "_" /\ ds[Len(ds)] # "_"
    /\ \A n \in DOMAIN ds :
           IF ds[n] = "_" THEN ds[n + 1] # "_" ELSE IsDigitOf(ds[n], base)

\* the number the digits write in the base, underscores left out
RECURSIVE NumberOf(_, _, _)
NumberOf(ds, base, n) ==
    IF ds = <<>> THEN n
    ELSE NumberOf(Tail(ds), base, IF Head(ds) = "_" THEN n ELSE n * base + DigitVal(Head(ds)))

\* the grammar as stated: a literal without prefix is decimal
StatedBase(s) == PrefixBase(Unsigned(s))
\* the grammar of base 0: a literal without prefix that starts with 0 is octal
OctalBase(s) ==
    IF ~HasBasePrefix(Unsigned(s)) /\ Len(Unsigned(s)) > 1 /\ Unsigned(s)[1] = "0"
        THEN 8
    ELSE PrefixBase(Unsigned(s))

\* s is a literal of the grammar that takes s in the given base, and the
\* integer it denotes
IsLiteral(s, base) == DigitsOf(AfterPrefix(Unsigned(s)), base)
Denotes(s, base) ==
    (IF HasSign(s) /\ s[1] = "-" THEN -1 ELSE 1)
        * NumberOf(AfterPrefix(Unsigned(s)), base, 0)

\* field k is an integer field decoded from a found value
IntegerConverted(k) == Converted(k) /\ LeafType(k) \in IntegerTypes

\* rt accepts the literal s taken in the base: an unsigned type takes no
\* sign, and the integer denoted is one of the type
Accepts(rt, s, base) ==
    /\ IsLiteral(s, base)
    /\ Signed(rt) \/ ~HasSign(s)
    /\ InRange(rt, Denotes(s, base))

\* C16 as stated: a literal with a 0x, 0o or 0b prefix is taken in that base
\* and any other literal, leading zeros or not, as decimal; every integer
\* field whose type holds the integer denoted decodes to it.
C16_IntegerLiteralAsStated ==
    Walked =>
        \A k \in DOMAIN before :
            (IntegerConverted(k) /\ Accepts(LeafType(k), Raw(k), StatedBase(Raw(k)))) =>
                /\ ~FailedAt(k)
                /\ LeafNow(k) = VInt(Denotes(Raw(k), StatedBase(Raw(k))))

\* C16 amended: a literal without prefix that starts with 0 is taken as
\* octal; an integer field decodes to the integer denoted when its type
\* accepts the literal, and fails with a ParseError, unchanged, when not.
C16_IntegerLiteral ==
    Walked =>
        \A k \in DOMAIN before :
            IntegerConverted(k) =>
                IF Accepts(LeafType(k), Raw(k), OctalBase(Raw(k)))
                THEN /\ ~FailedAt(k)
                     /\ LeafNow(k) = VInt(Denotes(Raw(k), OctalBase(Raw(k))))
                ELSE /\ FailedAt(k) /\ Kind(err) = "ParseError"
                     /\ LeafNow(k) = derefValue(before[k].val, before[k].Type)

\* C16 witness: an int8 field decoded "010" to 8.
C16_Witness ==
    /\ Walked /\ before # <<>> /\ IntegerConverted(1)
    /\ before[1].Type = Int8Type
    /\ Raw(1) = <<"0", "1", "0">>
    /\ err = NoErr /\ fields[1].val = VInt(8)

\* every prefix denotes 42: an int field decoded "0b101010" to 42
C16_PrefixWitness ==
    /\ Walked /\ before # <<>> /\ IntegerConverted(1)
    /\ Raw(1) = <<"0", "b", "1", "0", "1", "0", "1", "0">>
    /\ err = NoErr /\ fields[1].val = VInt(42)

\* the types decodeValue has a conversion for: the scalars, time.Duration,
\* time.Time, the types with a hook, and pointers to and slices of these
RECURSIVE Supported(_)
Supported(rt) ==
    IF Head(rt) \in {"ptr", "slice"} THEN Supported(Elem(rt))
    ELSE Head(rt) \in {"string", "bool", "int", "int8", "uint8", "Duration", "Time",
                       "Custom", "CustomText"}

\* the errors of the conversions of the standard library and of the hooks
ConversionErrors == {ErrSyntax, ErrRange, ErrTime, ErrDuration}

\* the conversion of the value found for field k failed
ConversionFailed(k) ==
    /\ Converted(k) /\ FailedAt(k)
    /\ Supported(LeafType(k))

\* the head of the error returned is a ParseError of field k: its key, the
\* raw value found and the field's leaf type
IsParseErrorOf(k) ==
    /\ Kind(err) = "ParseError"
    /\ err[1].Key = keyOf(before[k])
    /\ err[1].Value = Raw(k)
    /\ err[1].Type = LeafType(k)

\* C17 as stated: every failed conversion is returned as a ParseError of the
\* field whose Unwrap() is the error of the conversion.
C17_ParseErrorAsStated ==
    Walked =>
        \A k \in DOMAIN before :
            ConversionFailed(k) =>
                /\ IsParseErrorOf(k)
                /\ Tail(err) \in ConversionErrors

\* the first entry of a slice field that fails to decode, and its error
FirstFailing(k) ==
    CHOOSE j \in DOMAIN Split(Raw(k), tags[k].sep) :
        /\ ElementOf(k, Split(Raw(k), tags[k].sep)[j]).err # NoErr
        /\ \A m \in 1..(j - 1) : ElementOf(k, Split(Raw(k), tags[k].sep)[m]).err = NoErr
ElementError(k) == ElementOf(k, Split(Raw(k), tags[k].sep)[FirstFailing(k)]).err

\* a ParseError of an entry of the slice of field k: the field's key, the
\* entry and the leaf type of the element, around the conversion's error
IsEntryError(k, error) ==
    /\ Kind(error) = "ParseError"
    /\ error[1].Key = keyOf(before[k])
    /\ error[1].Value = Split(Raw(k), tags[k].sep)[FirstFailing(k)]
    /\ error[1].Type = derefType(Elem(LeafType(k)))
    /\ Tail(error) \in ConversionErrors

\* C17 amended: a failed conversion is returned as a ParseError with the
\* field's key, the raw value found and the field's leaf type; its Unwrap()
\* is the conversion's error, except for a slice field, where it is the
\* ParseError of the first entry that failed, which carries the entry, the
\* element's leaf type and the conversion's error.
C17_ParseError ==
    Walked =>
        \A k \in DOMAIN before :
            ConversionFailed(k) =>
                /\ IsParseErrorOf(k)
                /\ IF Head(LeafType(k)) = "slice"
                   THEN Tail(err) = ElementError(k) /\ IsEntryError(k, Tail(err))
                   ELSE Tail(err) \in ConversionErrors

\* C17 witness: an int8 field failed on "300" with a ParseError around
\* strconv.ErrRange.
C17_Witness ==
    /\ Walked /\ before # <<>> /\ ConversionFailed(1)
    /\ before[1].Type = Int8Type /\ Raw(1) = <<"3", "0", "0">>
    /\ IsParseErrorOf(1) /\ Tail(err) = ErrRange

\* a []int8 field with separator ";" failed on the entry "x" of "1;x"
C17_SliceWitness ==
    /\ Walked /\ before # <<>> /\ ConversionFailed(1)
    /\ before[1].Type = <<"slice", "int8">> /\ Raw(1) = <<"1", ";", "x">>
    /\ IsParseErrorOf(1) /\ Len(err) = 3
    /\ err[2].Value = <<"x">> /\ err[2].Type = Int8Type

\* field k, of a type decodeValue has no conversion for, was handed a found
\* value
UnsupportedConverted(k) == Converted(k) /\ ~Supported(LeafType(k))

\* the type without conversion: the leaf type, or the leaf type of the
\* elements of a slice
Offending(k) ==
    IF Head(LeafType(k)) = "slice" THEN derefType(Elem(LeafType(k))) ELSE LeafType(k)

\* error is an InvalidTypeError with the key of field k and the offending
\* type
IsInvalidTypeOf(k, error) ==
    /\ Kind(error) = "InvalidTypeError"
    /\ error[1].Key = keyOf(before[k])
    /\ error[1].Type = Offending(k)

\* C18 as stated: a found value for a field of an unsupported type, or of a
\* slice of such a type, fails with an InvalidTypeError carrying the type
\* and the field's key.
C18_InvalidTypeAsStated ==
    Walked =>
        \A k \in DOMAIN before :
            UnsupportedConverted(k) => FailedAt(k) /\ IsInvalidTypeOf(k, err)

\* C18 amended: the InvalidTypeError is the error returned for a field of an
\* unsupported type; for a slice of such a type, split with a non-empty
\* separator, it is the Unwrap() of the ParseError returned for the field.
C18_InvalidType ==
    Walked =>
        \A k \in DOMAIN before :
            (UnsupportedConverted(k) /\ tags[k].sep # <<>>) =>
                /\ FailedAt(k)
                /\ fields[k].val = before[k].val \/ Head(before[k].Type) = "ptr"
                /\ IF Head(LeafType(k)) = "slice"
                   THEN IsParseErrorOf(k) /\ IsInvalidTypeOf(k, Tail(err))
                   ELSE IsInvalidTypeOf(k, err)

\* C18 witness: a map field failed with an InvalidTypeError of its key and
\* type.
C18_Witness ==
    /\ Walked /\ before # <<>> /\ UnsupportedConverted(1)
    /\ before[1].Type = MapType
    /\ err = InvalidTypeError(KeyAt(1), MapType)

\* a []struct field failed with a ParseError around the InvalidTypeError
C18_SliceWitness ==
    /\ Walked /\ before # <<>> /\ UnsupportedConverted(1)
    /\ before[1].Type = <<"slice", "struct">>
    /\ Kind(err) = "ParseError" /\ Tail(err) = InvalidTypeError(KeyAt(1), StructType)

\* readTag returned a tag for field k during a call of Environment.Unmarshal:
\* tags[k] holds what e.Lookup answered for the field's key
LookedUp(k) ==
    /\ Walked /\ entry = "Environment.Unmarshal"
    /\ k \in DOMAIN tags

\* the Environment e is a map that holds the key
Holds(key) == e # NilMap /\ key \in DOMAIN e.map

\* C19 as stated: Environment.Lookup answers the entry of the map when the map holds
\* the key, whatever the process environment holds for it; else the process
\* environment's value when the variable is set; else ("", false); a nil
\* Environment answers as an empty one.
C19_OverlayThenProcess ==
    \A k \in DOMAIN before :
        LookedUp(k) =>
            IF Holds(keyOf(before[k]))
                THEN tags[k].set /\ tags[k].value = e.map[keyOf(before[k])]
            ELSE IF keyOf(before[k]) \in DOMAIN osenv
                THEN tags[k].set /\ tags[k].value = osenv[keyOf(before[k])]
            ELSE ~tags[k].set /\ tags[k].value = <<>>

\* C19 witness: the map and the process environment hold different values
\* for the key of the first field, and the map's was decoded.
C19_Witness ==
    /\ before # <<>> /\ LookedUp(1)
    /\ Holds(keyOf(before[1]))
    /\ keyOf(before[1]) \in DOMAIN osenv
    /\ osenv[keyOf(before[1])] # e.map[keyOf(before[1])]
    /\ tags[1].value = e.map[keyOf(before[1])]

\* a nil Environment answered with the process environment's value, and
\* with an ok of false
C19_NilWitness ==
    /\ before # <<>> /\ LookedUp(1) /\ e = NilMap
    /\ keyOf(before[1]) \in DOMAIN osenv
    /\ tags[1].value = osenv[keyOf(before[1])]
    /\ ~tags[1].set

\* an accessor of Value has returned
Accessed == Done /\ entry = "Value.accessor"

\* the literals of bool
TrueLiterals ==
    {<<"1">>, <<"t">>, <<"T">>, <<"t","r","u","e">>, <<"T","r","u","e">>,
     <<"T","R","U","E">>}
FalseLiterals ==
    {<<"0">>, <<"f">>, <<"F">>, <<"f","a","l","s","e">>, <<"F","a","l","s","e">>,
     <<"F","A","L","S","E">>}

\* s is a valid literal of the type of an accessor, and the value it denotes
ValidLiteral(rt, s) ==
    CASE rt = BoolType -> s \in TrueLiterals \cup FalseLiterals
      [] rt = DurationType -> ParseDuration(s).err = NoErr
      [] rt = TimeType -> \E n \in DOMAIN timeLayouts : Parses(n, s)
      [] OTHER -> Accepts(rt, s, OctalBase(s))
LiteralValue(rt, s) ==
    CASE rt = BoolType -> VBool(s \in TrueLiterals)
      [] rt = DurationType -> VInt(ParseDuration(s).d)
      [] rt = TimeType -> VTime(timeParse(timeLayouts[FirstLayout(s)], s).t)
      [] OTHER -> VInt(Denotes(s, OctalBase(s)))

\* an accessor answers a valid literal with its value and nil, and anything
\* else with the zero value and an error
AnswersLiteral ==
    IF ValidLiteral(acc, recv)
        THEN err = NoErr /\ got.val = LiteralValue(acc, recv)
    ELSE err # NoErr /\ got.val = Zero(acc)

\* C20 as stated: every typed accessor of Value returns the parsed value and
\* a nil error for a valid literal of its type, and the zero value and an
\* error for any other string.
C20_TypedAccessors == Accessed => AnswersLiteral

\* the accessors other than Time do so, and Time does for RFC 3339 literals
C20_OtherAccessors ==
    (Accessed /\ (acc = TimeType => ~ValidLiteral(acc, recv) \/ timeParse("RFC3339", recv).err = NoErr))
        => AnswersLiteral

\* ---------------------------------------------------------------------
\* C21: an error of UnmarshalEnv ends the decoding of the field
\* ---------------------------------------------------------------------

\* the leaf type of field k is an Unmarshaler whose UnmarshalEnv returns an
\* error for the value found
UnmarshalEnvFails(k) ==
    /\ Converted(k)
    /\ IsUnmarshaler(LeafType(k))
    /\ UnmarshalEnv(Raw(k)).err # NoErr

Entries(k) == Split(Raw(k), tags[k].sep)

\* field k is a slice, and an entry of the value found for it fails to decode
EntryFails(k) ==
    /\ Converted(k)
    /\ Head(LeafType(k)) = "slice"
    /\ \E j \in DOMAIN Entries(k) : ElementOf(k, Entries(k)[j]).err # NoErr

\* the conversions that decoding the first j entries of field k invokes
RECURSIVE CallsUpTo(_, _)
CallsUpTo(k, j) ==
    IF j = 0 THEN <<>>
    ELSE CallsUpTo(k, j - 1) \o ElementOf(k, Entries(k)[j]).calls

\* C22: when an entry of the value found for a slice field fails to decode,
\* the walk fails at that field with a ParseError of the field whose
\* Unwrap() is the error of the first entry that fails, no entry after that
\* one is decoded, and the field's slice is the one it held before the call.
C22_FirstEntryAborts ==
    Walked =>
        \A k \in DOMAIN before :
            EntryFails(k) =>
                /\ FailedAt(k)
                /\ IsParseErrorOf(k)
                /\ Tail(err) = ElementError(k)
                /\ invoked[k] = CallsUpTo(k, FirstFailing(k))
                /\ LeafNow(k) = derefValue(before[k].val, before[k].Type)

\* C22 witness: a []int8 field with separator ";" handed "a;b;c" failed on
\* the entry "a"; "b" and "c" were not converted and the field holds the
\* slice it held.
C22_Witness ==
    /\ Walked /\ before # <<>> /\ EntryFails(1)
    /\ before[1].Type = <<"slice", "int8">>
    /\ Entries(1) = << <<"a">>, <<"b">>, <<"c">> >>
    /\ FailedAt(1) /\ FirstFailing(1) = 1
    /\ invoked[1] = <<Call("strconv", <<"a">>)>>
    /\ fields[1].val = before[1].val /\ before[1].val # NilSlice

\* the second entry "x" of "1;x" failed after the first was converted
C22_LaterWitness ==
    /\ Walked /\ before # <<>> /\ EntryFails(1)
    /\ before[1].Type = <<"slice", "int8">>
    /\ Entries(1) = << <<"1">>, <<"x">> >>
    /\ FailedAt(1) /\ FirstFailing(1) = 2
    /\ invoked[1] = <<Call("strconv", <<"1">>), Call("strconv", <<"x">>)>>
    /\ fields[1].val = before[1].val

\* ---------------------------------------------------------------------
\* C23: an integer field takes the literals of its width's range only
\* ---------------------------------------------------------------------

\* the integer types of every width, and a pointer to one
RangeTypes ==
    {<<"int">>, Int8Type, <<"int16">>, <<"int32">>, <<"int64">>,
     <<"uint">>, Uint8Type, <<"uint16">>, <<"uint32">>, <<"uint64">>,
     <<"ptr", "int16">>}

\* literals at and next to the limits of the 8 and 16 bit types, in decimal
\* and in hexadecimal, with and without a sign
RangeLiterals ==
    {<<"0">>, <<"-","0">>, <<"+","5">>, <<"-","1">>,
     <<"1","2","7">>, <<"1","2","8">>, <<"-","1","2","8">>, <<"-","1","2","9">>,
     <<"2","5","5">>, <<"2","5","6">>, <<"0","x","F","F">>, <<"0","x","1","0","0">>,
     <<"-","0","x","8","0">>, <<"-","0","x","8","1">>,
     <<"3","2","7","6","7">>, <<"3","2","7","6","8">>,
     <<"-","3","2","7","6","8">>, <<"-","3","2","7","6","9">>,
     <<"6","5","5","3","5">>, <<"6","5","5","3","6">>,
     <<"6","5","_","5","3","5">>,
     <<"0","x","F","F","F","F">>, <<"0","x","1","0","0","0","0">>,
     <<"9","9","9","9","9","9">>}

\* a struct of one exported field of an integer type with an env tag of key
\* A, and the process environment with or without a literal for A
InitRange ==
    /\ out = StructPtr
    /\ \E t \in RangeTypes :
         \E held \in HeldBy(t) :
           fields = <<Field(NameAt(1, TRUE), TRUE, TagOf(KeyAt(1), <<>>), t, held)>>
    /\ osenv \in Envs({KeyAt(1)}, RangeLiterals)
    /\ e = NilMap
    /\ opts = <<>>
    /\ recv = <<"7">>
    /\ acc = Int8Type
    /\ script = Cleared
    /\ Start

SpecRange == InitRange /\ [][Next]_vars

\* the width of an integer type in bits, 0 for the platform's int and uint
Width(rt) ==
    CASE Head(rt) \in {"int8", "uint8"} -> 8
      [] Head(rt) \in {"int16", "uint16"} -> 16
      [] Head(rt) \in {"int32", "uint32"} -> 32
      [] Head(rt) \in {"int64", "uint64"} -> 64
      [] OTHER -> 0

\* n lies in the range of rt: [-2^(w-1), 2^(w-1)-1] for a signed type of
\* width w, [0, 2^w-1] for an unsigned one. Every literal of RangeLiterals
\* is below 2^31 in magnitude, inside the range of the types of 32 bits and
\* more but for their sign.
InWidth(rt, n) ==
    IF Width(rt) \in {8, 16}
        THEN IF Signed(rt)
                 THEN n \in (-Pow2(Width(rt) - 1))..(Pow2(Width(rt) - 1) - 1)
             ELSE n \in 0..(Pow2(Width(rt)) - 1)
    ELSE Signed(rt) \/ n >= 0

\* field k is an integer field of any width that was handed an integer
\* literal, and the integer the literal denotes
RangeConverted(k) ==
    /\ Converted(k)
    /\ LeafType(k) \in {derefType(t) : t \in RangeTypes}
    /\ IsLiteral(Raw(k), OctalBase(Raw(k)))
Literal(k) == Denotes(Raw(k), OctalBase(Raw(k)))

\* the field decoded to n; the field failed with a ParseError and holds
\* what it held
DecodedTo(k, n) == ~FailedAt(k) /\ LeafNow(k) = VInt(n)
Rejected(k) ==
    /\ FailedAt(k) /\ IsParseErrorOf(k)
    /\ LeafNow(k) = derefValue(before[k].val, before[k].Type)

C23_Int16Witness ==
    /\ Walked /\ before # <<>> /\ RangeConverted(1)
    /\ before[1].Type = <<"int16">> /\ Raw(1) = <<"-","3","2","7","6","8">>
    /\ DecodedTo(1, -32768)
C23_Uint16Witness ==
    /\ Walked /\ before # <<>> /\ RangeConverted(1)
    /\ before[1].Type = <<"uint16">> /\ Raw(1) = <<"6","5","5","3","5">>
    /\ DecodedTo(1, 65535)
C23_Uint32Witness ==
    /\ Walked /\ before # <<>> /\ RangeConverted(1)
    /\ before[1].Type = <<"uint32">> /\ Raw(1) = <<"6","5","5","3","6">>
    /\ DecodedTo(1, 65536)

\* "+5" handed to a uint8 field is rejected although 5 lies in [0, 255]
C23_SignWitness ==
    /\ Walked /\ before # <<>> /\ RangeConverted(1)
    /\ before[1].Type = Uint8Type /\ Raw(1) = <<"+", "5">>
    /\ Rejected(1) /\ Tail(err) = ErrSyntax

\* ---------------------------------------------------------------------
\* The methods of Environment: Set, Unset, Lookup, Contains
\* ---------------------------------------------------------------------

\* the calls of Set and Unset of the model: both keys, the empty value and
\* a value the process environment does not hold
EnvCalls ==
    {SetCall(k, v) : k \in EnvKeys, v \in {<<>>, <<"7">>}}
    \cup {UnsetCall(k) : k \in EnvKeys}

\* a nil Environment or one made with New(), up to MaxCalls calls of Set and
\* Unset on it, a process environment that holds "9" for some of the keys,
\* and a struct of one int8 field that reads the first key
InitEnv ==
    /\ out = StructPtr
    /\ fields = <<Field(NameAt(1, TRUE), TRUE, TagOf(KeyAt(1), <<>>), Int8Type,
                        DefaultVal(Int8Type))>>
    /\ osenv \in Envs(EnvKeys, {<<"9">>})
    /\ e \in {NilMap, Map(<<>>)}
    /\ opts = <<>>
    /\ recv = <<"7">>
    /\ acc = Int8Type
    /\ script \in SeqsUpTo(EnvCalls, MaxCalls)
    /\ Start

SpecEnv == InitEnv /\ [][Next]_vars

\* Contains, and Lookup, has returned
Contained == Done /\ entry = "Environment.Contains"
LookedUpKey == Done /\ entry = "Environment.Lookup"

\* C24 as stated: what e.Contains(key) returns is whether e.Lookup(key)
\* reports the key as found, for a nil Environment and for a map.
C24_ContainsIffLookup ==
    Contained => (got.val <=> Lookup(e, osenv, got.key).ok)

\* Contains and Lookup agree on the keys the map holds and on the keys set
\* nowhere, and on every key for a nil Environment, for which both answer
\* false
C24_AgreeOnMapKeys ==
    (/\ Contained
     /\ e = NilMap \/ Holds(got.key) \/ got.key \notin DOMAIN osenv) =>
        (got.val <=> Lookup(e, osenv, got.key).ok)

\* an empty map answered Contains with true for a key of the process
\* environment for which Lookup returns ("9", false)
C24_DisagreeWitness ==
    /\ Contained /\ e = Map(<<>>) /\ got.key \in DOMAIN osenv
    /\ got.val = TRUE
    /\ Lookup(e, osenv, got.key) = [value |-> <<"9">>, ok |-> FALSE]

\* a nil Environment answered Contains with false for a key of the process
\* environment
C24_NilWitness ==
    /\ Contained /\ e = NilMap /\ got.key \in DOMAIN osenv
    /\ got.val = FALSE

\* ---------------------------------------------------------------------
\* C25: Lookup after calls of Set and Unset
\* ---------------------------------------------------------------------

\* the last call made on a key, 0 when none was
LastCall(key) ==
    IF \E j \in 1..made : script[j].key = key
        THEN CHOOSE j \in 1..made :
                 /\ script[j].key = key
                 /\ \A m \in (j + 1)..made : script[m].key # key
    ELSE 0

\* a Set of the key was made and no Unset of it after
IsSet(key) == LastCall(key) # 0 /\ script[LastCall(key)].op = "Set"

\* C25 as stated: after the calls made, Lookup(k) returns (v, true) for the
\* last Set(k, v) when no Unset(k) followed it, and what the process
\* environment holds for k when there is no such Set.
C25_LookupFollowsCalls ==
    LookedUpKey =>
        got.val = IF IsSet(got.key) THEN Found(script[LastCall(got.key)].value)
                  ELSE LookupEnv(osenv, got.key)

\* the part of C25 that holds: Lookup(k) returns (v, true) for the last
\* Set(k, v) not followed by Unset(k); without one it returns the value of
\* the process environment, with an ok of false
C25_LookupOfSetKeys ==
    LookedUpKey =>
        got.val = IF IsSet(got.key) THEN Found(script[LastCall(got.key)].value)
                  ELSE lookupEnd(LookupEnv(osenv, got.key))

\* a call of Set or Unset of a key changes neither what Lookup returns for
\* another key nor the process environment
C25_CallsAreLocal ==
    [][made' = made + 1 =>
          /\ osenv' = osenv
          /\ \A k \in EnvKeys \ {script[made'].key} :
                 Lookup(e', osenv', k) = Lookup(e, osenv, k)]_vars

\* Lookup returned the value of the second of two calls of Set of a key
C25_SetWitness ==
    /\ LookedUpKey /\ made = 2 /\ got.key = KeyAt(1)
    /\ script = <<SetCall(KeyAt(1), <<>>), SetCall(KeyAt(1), <<"7">>)>>
    /\ got.val = Found(<<"7">>)

\* after Set and Unset of a key the process environment holds, Lookup
\* returned its value and false
C25_UnsetWitness ==
    /\ LookedUpKey /\ made = 2 /\ got.key = KeyAt(1)
    /\ script = <<SetCall(KeyAt(1), <<"7">>), UnsetCall(KeyAt(1))>>
    /\ KeyAt(1) \in DOMAIN osenv
    /\ got.val = [value |-> <<"9">>, ok |-> FALSE]

\* ---------------------------------------------------------------------
\* C26: a key present with the empty value is found
\* ---------------------------------------------------------------------

\* the key of field k was found with the empty string for value
FoundEmpty(k) == Converted(k) /\ Raw(k) = <<>>

\* the one element of a slice decoded from an empty value
EmptyElement(k) == ElementOf(k, <<>>)

\* C26: a field whose key is found with the empty value is converted like
\* any other: it never fails with a RequirementError, required or not; a
\* string field becomes ""; an int8 field fails with a ParseError around
\* strconv.ErrSyntax; a slice field with a non-empty separator decodes the
\* one entry "" and holds exactly that element, or fails with a ParseError
\* around the entry's error.
C26_EmptyIsFound ==
    Walked =>
        \A k \in DOMAIN before :
            FoundEmpty(k) =>
                /\ ~(FailedAt(k) /\ Kind(err) = "RequirementError")
                /\ LeafType(k) = StringType =>
                       /\ ~FailedAt(k) /\ LeafNow(k) = VStr(<<>>)
                       /\ invoked[k] = <<Call("SetString", <<>>)>>
                /\ LeafType(k) = Int8Type =>
                       /\ FailedAt(k) /\ IsParseErrorOf(k) /\ Tail(err) = ErrSyntax
                       /\ invoked[k] = <<Call("strconv", <<>>)>>
                /\ (Head(LeafType(k)) = "slice" /\ tags[k].sep # <<>>) =>
                       /\ invoked[k] = EmptyElement(k).calls
                       /\ IF EmptyElement(k).err = NoErr
                          THEN /\ ~FailedAt(k)
                               /\ LeafNow(k) = Slice(<<EmptyElement(k).val>>)
                          ELSE /\ FailedAt(k) /\ IsParseErrorOf(k)
                               /\ Tail(err) = EmptyElement(k).err

\* C26 witness: a required []string field whose key was found with the
\* empty value holds the one element "".
C26_Witness ==
    /\ Walked /\ before # <<>> /\ FoundEmpty(1)
    /\ HasRequired(before[1])
    /\ before[1].Type = <<"slice", "string">> /\ tags[1].sep # <<>>
    /\ err = NoErr
    /\ fields[1].val = Slice(<<VStr(<<>>)>>)

\* a required int8 field whose key was found with the empty value failed
\* with a ParseError
C26_NumericWitness ==
    /\ Walked /\ before # <<>> /\ FoundEmpty(1)
    /\ HasRequired(before[1])
    /\ before[1].Type = Int8Type
    /\ FailedAt(1) /\ Kind(err) = "ParseError" /\ Tail(err) = ErrSyntax

\* a []int8 field failed on the one entry ""
C26_SliceErrorWitness ==
    /\ Walked /\ before # <<>> /\ FoundEmpty(1)
    /\ before[1].Type = <<"slice", "int8">> /\ tags[1].sep # <<>>
    /\ FailedAt(1) /\ Len(err) = 3 /\ err[2].Value = <<>>

====
